---- MODULE Spec2Model ----
(***************************************************************************)
(* Project versioning, contributor ledger, comment threads and the         *)
(* analysis-job poller of boardmint-pcb-analyzer.                          *)
(*                                                                         *)
(* The data layer is the SQL of the two migrations (tables, constraints,   *)
(* foreign keys, row-level-security policies, the contributor trigger).    *)
(* A statement is issued either by a tenant user (row policies apply, the  *)
(* trigger runs with the invoker's rights) or by the service role of the   *)
(* backend (row policies bypassed).  The backend request handlers are not  *)
(* part of the sources; where one is needed it is modelled from the        *)
(* specification and marked so in the model map.                           *)
(***************************************************************************)
EXTENDS Integers, Sequences, FiniteSets, TLC

VARIABLES
    projects,              \* ids of the rows of table projects
    version_count,         \* projects.version_count
    current_version_id,    \* projects.current_version_id
    project_versions,      \* rows of table project_versions
    project_contributors,  \* rows of table project_contributors
    calls,                 \* createVersion requests being handled
    file_comments,         \* rows of table file_comments
    analyses,              \* rows of table analyses
    issue_comments,        \* rows of table issue_comments
    next_id,               \* the next primary key of a comment or an analysis
    last,                  \* outcome of the latest statement or request
    view,                  \* DashboardPage: route parameter and React state
    effects,               \* the runs of DashboardPage's polling effect
    effect_count,          \* how many runs of the effect there have been
    shown,                 \* per analysis id, the latest status set as results
    reports,               \* per analysis id, the statuses set as results so far
    batch,                 \* ProjectsPage: the latest batch analysis and its answer
    detail,                \* ProjectDetailPage: per user, the page's React state
    form,                  \* CommentBox: the comment form's React state
    auth,                  \* AuthProvider: React state, refs, the client's session
    fetching,              \* the fetchUserData call that holds fetchingRef
    signInCall,            \* LoginPage: the signIn call of the form
    signOutCall,           \* the signOut call in progress
    events                 \* auth-state events not yet given to the callback

storeVars == <<projects, version_count, current_version_id, project_versions,
               project_contributors, calls, file_comments, analyses,
               issue_comments, next_id, last>>

pollVars == <<view, effects, effect_count, shown, reports>>

pageVars == <<batch, detail, form>>

authVars == <<auth, fetching, signInCall, signOutCall, events>>

uiVars == <<pollVars, pageVars, authVars>>

vars == <<storeVars, pollVars, pageVars, authVars>>

-----------------------------------------------------------------------------
(* Bounds *)

MaxVersion == 3
MaxCalls == 3
MaxRows == 3
MaxEffects == 2
MaxJobs == 2
MaxTime == 2

-----------------------------------------------------------------------------
(* Tenants *)

NULL == "null"
NoVersion == <<NULL, 0>>
SERVICE == "service_role"

Orgs == {"A", "B"}
Users == {"u1", "u2", "u3"}
ProjectIds == {"p1", "p2"}

\* users.organization_id: exclusive membership
UserOrg(u) == IF u = "u3" THEN "B" ELSE "A"

\* projects.organization_id and projects.created_by
ProjectOrg(p) == IF p = "p1" THEN "A" ELSE "B"
ProjectCreator(p) == IF p = "p1" THEN "u1" ELSE "u3"

\* a statement of a tenant user is subject to the row policies
RlsOn(caller) == caller # SERVICE

\* SELECT id FROM projects WHERE organization_id IN
\*   (SELECT organization_id FROM users WHERE id = auth.uid())
OrgProjects(caller) == {p \in projects : ProjectOrg(p) = UserOrg(caller)}


-----------------------------------------------------------------------------
(* Table project_versions and its row policies *)

\* a row (NEW in the trigger) of project_versions; the primary key id is never reused, so a row
\* is identified here by <<project_id, version_number>>
VersionRow(p, n, by, org) ==
    [project_id |-> p, version_number |-> n, uploaded_by |-> by,
     organization_id |-> org]

VersionId(r) == <<r.project_id, r.version_number>>

VersionsOf(p) == {r \in project_versions : r.project_id = p}

\* UNIQUE(project_id, version_number)
UniqueVersionNoCheck(new) == TRUE

UniqueVersion(new) ==
    \A r \in project_versions :
        ~(r.project_id = new.project_id /\ r.version_number = new.version_number)

\* project_id REFERENCES projects(id)
VersionProjectFk(new) == new.project_id \in projects

\* policy "Users can create versions in their org": FOR INSERT WITH CHECK
VersionInsertPolicy(caller, new) ==
    ~RlsOn(caller) \/ new.organization_id = UserOrg(caller)

\* policy "Users can view versions in their org": FOR SELECT USING
VersionSelectPolicy(caller, r) ==
    ~RlsOn(caller) \/ r.organization_id = UserOrg(caller)

VisibleVersions(caller) ==
    {r \in project_versions : VersionSelectPolicy(caller, r)}

-----------------------------------------------------------------------------
(* Table project_contributors, its row policies and the trigger *)

ContributorRow(p, u, role, count) ==
    [project_id |-> p, user_id |-> u, role |-> role, contribution_count |-> count]

ContributorsOf(p, u) ==
    {c \in project_contributors : c.project_id = p /\ c.user_id = u}

\* policy "Users can add contributors to their org projects": FOR INSERT WITH CHECK
ContributorInsertPolicyOff(caller, p) == TRUE

ContributorInsertPolicy(caller, p) ==
    ~RlsOn(caller) \/ p \in OrgProjects(caller)

\* policy "Users can view contributors in their org": FOR SELECT USING
ContributorSelectPolicy(caller, c) ==
    ~RlsOn(caller) \/ c.project_id \in OrgProjects(caller)

VisibleContributors(caller) ==
    {c \in project_contributors : ContributorSelectPolicy(caller, c)}

\* project_contributors has row security enabled and no policy FOR UPDATE:
\* the DO UPDATE arm of an upsert is denied to a tenant and raises an error
ContributorUpdatePolicy(caller, c) == ~RlsOn(caller)

\* a DO UPDATE arm that counts the version twice
IncrementedTwice(c) == c.contribution_count + 2

\* the count written by the DO UPDATE arm
IncrementedCount(c) == c.contribution_count + 1

\* update_project_contributors(): INSERT ... ON CONFLICT (project_id, user_id)
\* DO UPDATE SET contribution_count = contribution_count + 1, run with the
\* rights of the caller of the INSERT on project_versions.
\* The result is the new table, or the error flag that aborts the INSERT.
UpsertContributor(rows, caller, new) ==
    LET old == {c \in rows : c.project_id = new.project_id
                             /\ c.user_id = new.uploaded_by}
    IN  IF ~ContributorInsertPolicy(caller, new.project_id)
        THEN [ok |-> FALSE, rows |-> rows]
        ELSE IF old = {}
        THEN [ok |-> TRUE,
              rows |-> rows \cup
                  {ContributorRow(new.project_id, new.uploaded_by, "contributor", 1)}]
        ELSE IF \E c \in old : ~ContributorUpdatePolicy(caller, c)
        THEN [ok |-> FALSE, rows |-> rows]
        ELSE [ok |-> TRUE,
              rows |-> (rows \ old) \cup
                  {[c EXCEPT !.contribution_count = IncrementedCount(c)] : c \in old}]

\* trigger_update_contributors: AFTER INSERT ON project_versions FOR EACH ROW
update_project_contributors(caller, new) ==
    UpsertContributor(project_contributors, caller, new)

\* the count taken without WHERE project_id = NEW.project_id
CountedAllVersions(p, rows) == Cardinality(rows)

\* UPDATE projects SET version_count = (SELECT COUNT(*) FROM project_versions ...)
CountedVersions(p, rows) == Cardinality({r \in rows : r.project_id = p})

\* INSERT INTO project_versions with its constraints, the INSERT policy and the
\* AFTER INSERT trigger; an error anywhere leaves every table as it was
InsertVersionOk(caller, new) ==
    /\ VersionInsertPolicy(caller, new)
    /\ VersionProjectFk(new)
    /\ UniqueVersion(new)
    /\ update_project_contributors(caller, new).ok

InsertVersionError(caller, new) ==
    IF ~VersionInsertPolicy(caller, new) THEN "rls_project_versions"
    ELSE IF ~VersionProjectFk(new) THEN "fk_violation"
    ELSE IF ~UniqueVersion(new) THEN "unique_violation"
    ELSE IF ~update_project_contributors(caller, new).ok
    THEN "rls_project_contributors"
    ELSE "none"

InsertVersion(caller, new) ==
    IF InsertVersionOk(caller, new)
    THEN /\ project_versions' = project_versions \cup {new}
         /\ project_contributors' = update_project_contributors(caller, new).rows
         /\ version_count' = [version_count EXCEPT ![new.project_id] =
                CountedVersions(new.project_id, project_versions \cup {new})]
    ELSE UNCHANGED <<project_versions, project_contributors, version_count>>


-----------------------------------------------------------------------------
(* Outcome of the latest statement or request *)

\* what was asked, by whom, and the answer; the row written or removed (its
\* number or id n, its uploader or author u) is kept for a statement that
\* succeeded
Outcome(op, by, ok, err, p, n, u) ==
    [op |-> op, by |-> by, ok |-> ok, err |-> err, p |-> p,
     n |-> IF ok THEN n ELSE 0, u |-> IF ok THEN u ELSE NULL]

-----------------------------------------------------------------------------
(* Initial data migration: the state the tables are in once the migration   *)
(* has run over the projects that existed before it                         *)

\* INSERT INTO project_versions (...) SELECT p.id, 1, ... FROM projects p
\* WHERE NOT EXISTS (a version of p)
MigratedVersions ==
    {VersionRow(p, 1, ProjectCreator(p), ProjectOrg(p)) : p \in ProjectIds}

\* the trigger fires for each migrated row, with the rights of the migration
TriggeredContributors ==
    UNION {UpsertContributor({}, SERVICE, r).rows : r \in MigratedVersions}

\* INSERT INTO project_contributors (project_id, user_id, role, ...) SELECT p.id,
\* p.created_by, 'owner', ... WHERE NOT EXISTS (a row of that project and user)
MigratedContributors ==
    TriggeredContributors \cup
        {ContributorRow(p, ProjectCreator(p), "owner", 1) :
            p \in {q \in ProjectIds :
                    ~\E c \in TriggeredContributors :
                        c.project_id = q /\ c.user_id = ProjectCreator(q)}}

CallIds == 1..MaxCalls

IdleCall == [pc |-> "idle", user |-> NULL, project |-> NULL, n |-> 0, tries |-> 0]

-----------------------------------------------------------------------------
(* Statements a tenant user sends to the data layer under the row policies *)

\* INSERT INTO project_versions by a signed-in user: every column is the
\* caller's choice
TenantInsertVersion(u, p, n, by, org) ==
    LET new == VersionRow(p, n, by, org)
    IN  /\ InsertVersion(u, new)
        /\ last' = Outcome("insert_version", u, InsertVersionOk(u, new),
                           InsertVersionError(u, new), p, n, by)
        /\ UNCHANGED <<projects, current_version_id, calls, file_comments,
                       analyses, issue_comments, next_id>>

\* INSERT INTO project_contributors by a signed-in user; role and
\* contribution_count take their column defaults
TenantInsertContributor(u, p, target) ==
    LET allowed == ContributorInsertPolicy(u, p)
        fresh == ContributorsOf(p, target) = {}
        ok == allowed /\ p \in projects /\ fresh
    IN  /\ project_contributors' =
            IF ok THEN project_contributors \cup
                       {ContributorRow(p, target, "contributor", 1)}
            ELSE project_contributors
        /\ last' = Outcome("insert_contributor", u, ok,
                           IF ~allowed THEN "rls_violation"
                           ELSE IF p \notin projects THEN "fk_violation"
                           ELSE IF ~fresh THEN "unique_violation" ELSE "none",
                           p, 0, target)
        /\ UNCHANGED <<projects, version_count, current_version_id,
                       project_versions, calls, file_comments, analyses,
                       issue_comments, next_id>>


-----------------------------------------------------------------------------
(* createVersion: POST /api/projects/{id}/versions.  The client sends the   *)
(* file and optional labels and no version number; the handler assigns the *)
(* number and inserts with the service role.  The table offers             *)
(* UNIQUE(project_id, version_number) and no per-project sequence, so the   *)
(* number is read and then claimed, and a lost race is retried.             *)

\* retries after a lost race before Conflict is surfaced
MaxRetry == 1

NextVersionNumber(p) ==
    IF VersionsOf(p) = {} THEN 1
    ELSE (CHOOSE n \in {r.version_number : r \in VersionsOf(p)} :
            \A r \in VersionsOf(p) : r.version_number <= n) + 1

SetCall(c, rec) == calls' = [calls EXCEPT ![c] = rec]

\* a request that was answered: ok, Conflict or ProjectNotFound
Ended(answer) == [IdleCall EXCEPT !.pc = answer]

\* request accepted: the project must be visible to the caller's organization
CreateVersionBegin(c, u, p) ==
    /\ calls[c].pc = "idle"
    /\ \A d \in CallIds : d < c => calls[d].pc # "idle"
    /\ IF p \in OrgProjects(u)
       THEN /\ SetCall(c, [pc |-> "insert", user |-> u, project |-> p,
                           n |-> NextVersionNumber(p), tries |-> 0])
            /\ last' = Outcome("create_version_begin", u, TRUE, "none", p, 0, u)
       ELSE /\ SetCall(c, Ended("not_found"))
            /\ last' = Outcome("create_version", u, FALSE, "ProjectNotFound", p, 0, u)
    /\ UNCHANGED <<projects, version_count, current_version_id, project_versions,
                   project_contributors, file_comments, analyses, issue_comments,
                   next_id>>

\* the number read is claimed by the INSERT; the unique constraint decides
CreateVersionInsert(c) ==
    LET call == calls[c]
        new == VersionRow(call.project, call.n, call.user, ProjectOrg(call.project))
        ok == InsertVersionOk(SERVICE, new)
        err == InsertVersionError(SERVICE, new)
    IN  /\ call.pc = "insert"
        /\ InsertVersion(SERVICE, new)
        /\ current_version_id' =
              IF ok THEN [current_version_id EXCEPT ![call.project] = VersionId(new)]
              ELSE current_version_id
        /\ IF ok
           THEN /\ SetCall(c, Ended("done"))
                /\ last' = Outcome("create_version", call.user, TRUE, "none",
                                   call.project, call.n, call.user)
           ELSE IF err = "unique_violation" /\ call.tries < MaxRetry
           THEN /\ SetCall(c, [call EXCEPT !.pc = "read", !.tries = @ + 1])
                /\ last' = Outcome("create_version_retry", call.user, FALSE, err,
                                   call.project, call.n, call.user)
           ELSE /\ SetCall(c, Ended(IF err = "unique_violation" THEN "conflict"
                                     ELSE "not_found"))
                /\ last' = Outcome("create_version", call.user, FALSE,
                                   IF err = "unique_violation" THEN "Conflict"
                                   ELSE "ProjectNotFound",
                                   call.project, call.n, call.user)
        /\ UNCHANGED <<projects, file_comments, analyses, issue_comments, next_id>>

\* a request handled with no other request between its read and its INSERT
CreateVersionSerial(u, p) ==
    LET new == VersionRow(p, NextVersionNumber(p), u, ProjectOrg(p))
        visible == p \in OrgProjects(u)
        ok == visible /\ InsertVersionOk(SERVICE, new)
    IN  /\ NextVersionNumber(p) <= MaxVersion
        /\ IF visible
           THEN InsertVersion(SERVICE, new)
           ELSE UNCHANGED <<project_versions, project_contributors, version_count>>
        /\ current_version_id' =
              IF ok THEN [current_version_id EXCEPT ![p] = VersionId(new)]
              ELSE current_version_id
        /\ last' = Outcome("create_version", u, ok,
                           IF ok THEN "none" ELSE "ProjectNotFound",
                           p, new.version_number, u)
        /\ UNCHANGED <<projects, calls, file_comments, analyses, issue_comments,
                       next_id>>

\* the retry reads the highest number again
CreateVersionRead(c) ==
    /\ calls[c].pc = "read"
    /\ SetCall(c, [calls[c] EXCEPT !.pc = "insert",
                                   !.n = NextVersionNumber(calls[c].project)])
    /\ UNCHANGED <<projects, version_count, current_version_id, project_versions,
                   project_contributors, file_comments, analyses, issue_comments,
                   next_id, last>>


-----------------------------------------------------------------------------
(* Tables file_comments, analyses and issue_comments *)

FilePaths == {"board.kicad_pcb", "bom.csv"}

\* the times NOW() gives to the requests that are handled
Times == 1..MaxTime
IssueIds == {"i1"}

\* comment bodies: none, the empty string, a blank one, text, and text with
\* blanks around it
Bodies == {"", " ", "text", " text "}

\* String.prototype.trim on those
Trim(b) == IF b = " " THEN "" ELSE IF b = " text " THEN "text" ELSE b

\* comment TEXT NOT NULL
NotNull(body) == body # NULL

FileCommentRow(id, p, path, body, at, by) ==
    [id |-> id, project_id |-> p, file_path |-> path, comment |-> body,
     created_at |-> at, created_by |-> by]

\* CONSTRAINT unique_user_file_comment UNIQUE (project_id, file_path,
\* created_by, created_at)
UniqueFileComment(new) ==
    ~\E c \in file_comments :
        /\ c.project_id = new.project_id
        /\ c.file_path = new.file_path
        /\ c.created_by = new.created_by
        /\ c.created_at = new.created_at

AnalysisRow(id, p, v, org, status) ==
    [id |-> id, project_id |-> p, version_id |-> v, organization_id |-> org,
     status |-> status]

IssueCommentRow(id, a, issue, body, by) ==
    [id |-> id, analysis_id |-> a, issue_id |-> issue, comment |-> body,
     created_by |-> by, status |-> "open"]

AnalysisIdsOf(rows) == {a.id : a \in rows}

\* SELECT id FROM analyses WHERE organization_id =
\*   (SELECT organization_id FROM users WHERE id = auth.uid())
OrgAnalyses(caller) ==
    {a.id : a \in {x \in analyses : x.organization_id = UserOrg(caller)}}

\* policy file_comments_org_access: FOR ALL USING (no WITH CHECK: the USING
\* expression also checks the rows a statement writes)
file_comments_org_access(caller, c) ==
    ~RlsOn(caller) \/ c.project_id \in OrgProjects(caller)

\* policy issue_comments_org_access: FOR ALL USING
issue_comments_org_access(caller, c) ==
    ~RlsOn(caller) \/ c.analysis_id \in OrgAnalyses(caller)

VisibleFileComments(caller) ==
    {c \in file_comments : file_comments_org_access(caller, c)}

VisibleIssueComments(caller) ==
    {c \in issue_comments : issue_comments_org_access(caller, c)}

\* INSERT INTO file_comments by a signed-in user
TenantInsertFileComment(u, p, path, body, at, by) ==
    LET new == FileCommentRow(next_id, p, path, body, at, by)
        allowed == file_comments_org_access(u, new)
        ok == NotNull(body) /\ allowed /\ p \in projects /\ UniqueFileComment(new)
    IN  /\ next_id <= MaxRows
        /\ file_comments' = IF ok THEN file_comments \cup {new} ELSE file_comments
        /\ next_id' = IF ok THEN next_id + 1 ELSE next_id
        /\ last' = Outcome("insert_file_comment", u, ok,
                           IF ~NotNull(body) THEN "not_null_violation"
                           ELSE IF ~allowed THEN "rls_violation"
                           ELSE IF p \notin projects THEN "fk_violation"
                           ELSE IF ~ok THEN "unique_violation" ELSE "none",
                           p, next_id, by)
        /\ UNCHANGED <<projects, version_count, current_version_id,
                       project_versions, project_contributors, calls, analyses,
                       issue_comments>>

\* DELETE FROM file_comments WHERE id = ... by a signed-in user: the rows the
\* policy does not show are not touched, and no error is raised for them
TenantDeleteFileComment(u, id) ==
    LET hit == {c \in VisibleFileComments(u) : c.id = id}
    IN  /\ \E c \in file_comments : c.id = id
        /\ file_comments' = file_comments \ hit
        /\ last' = Outcome("delete_file_comment", u, hit # {},
                           IF hit = {} THEN "no_rows" ELSE "none",
                           (CHOOSE c \in file_comments : c.id = id).project_id, id,
                           (CHOOSE c \in file_comments : c.id = id).created_by)
        /\ UNCHANGED <<projects, version_count, current_version_id,
                       project_versions, project_contributors, calls, analyses,
                       issue_comments, next_id>>

\* INSERT INTO issue_comments by a signed-in user
TenantInsertIssueComment(u, a, issue, body, by) ==
    LET new == IssueCommentRow(next_id, a, issue, body, by)
        allowed == issue_comments_org_access(u, new)
        ok == NotNull(body) /\ allowed /\ a \in AnalysisIdsOf(analyses)
    IN  /\ next_id <= MaxRows
        /\ a \in AnalysisIdsOf(analyses)
        /\ issue_comments' = IF ok THEN issue_comments \cup {new} ELSE issue_comments
        /\ next_id' = IF ok THEN next_id + 1 ELSE next_id
        /\ last' = Outcome("insert_issue_comment", u, ok,
                           IF ~NotNull(body) THEN "not_null_violation"
                           ELSE IF ~allowed THEN "rls_violation" ELSE "none",
                           (CHOOSE x \in analyses : x.id = a).project_id, next_id, by)
        /\ UNCHANGED <<projects, version_count, current_version_id,
                       project_versions, project_contributors, calls, analyses,
                       file_comments>>

\* DELETE FROM issue_comments WHERE id = ... by a signed-in user
TenantDeleteIssueComment(u, id) ==
    LET hit == {c \in VisibleIssueComments(u) : c.id = id}
        row == CHOOSE c \in issue_comments : c.id = id
    IN  /\ \E c \in issue_comments : c.id = id
        /\ issue_comments' = issue_comments \ hit
        /\ last' = Outcome("delete_issue_comment", u, hit # {},
                           IF hit = {} THEN "no_rows" ELSE "none",
                           (CHOOSE x \in analyses : x.id = row.analysis_id).project_id,
                           id, row.created_by)
        /\ UNCHANGED <<projects, version_count, current_version_id,
                       project_versions, project_contributors, calls, analyses,
                       file_comments, next_id>>


-----------------------------------------------------------------------------
(* SELECT by a signed-in user: the rows of one project or one analysis that *)
(* the policies show; the outcome keeps how many came back                  *)

TenantSelect(u, table, p, rows) ==
    /\ last' = Outcome(table, u, rows # {},
                       IF rows = {} THEN "no_rows" ELSE "none",
                       p, Cardinality(rows), u)
    /\ UNCHANGED <<projects, version_count, current_version_id, project_versions,
                   project_contributors, calls, file_comments, analyses,
                   issue_comments, next_id>>

TenantSelectVersions(u, p) ==
    TenantSelect(u, "select_versions", p,
                 {r \in VisibleVersions(u) : r.project_id = p})

TenantSelectContributors(u, p) ==
    TenantSelect(u, "select_contributors", p,
                 {c \in VisibleContributors(u) : c.project_id = p})

TenantSelectFileComments(u, p) ==
    TenantSelect(u, "select_file_comments", p,
                 {c \in VisibleFileComments(u) : c.project_id = p})

TenantSelectIssueComments(u, a) ==
    /\ a \in AnalysisIdsOf(analyses)
    /\ TenantSelect(u, "select_issue_comments",
                    (CHOOSE x \in analyses : x.id = a).project_id,
                    {c \in VisibleIssueComments(u) : c.analysis_id = a})

-----------------------------------------------------------------------------
(* Comment deletion through the application *)

\* CommentBox: canDelete = currentUserId === comment.created_by; the delete
\* button is rendered for the comment only when canDelete holds
canDelete(currentUserId, comment) == currentUserId = comment.created_by

\* DELETE /api/projects/{projectId}/comments/{commentId}: the handler answers
\* NotFound outside the caller's organization and Forbidden to a non-author
DeleteCommentHandler(u, id) ==
    LET row == CHOOSE c \in file_comments : c.id = id
        visible == row.project_id \in OrgProjects(u)
        ok == visible /\ u = row.created_by
    IN  /\ \E c \in file_comments : c.id = id
        /\ file_comments' = IF ok THEN file_comments \ {row} ELSE file_comments
        /\ last' = Outcome("delete_comment", u, ok,
                           IF ~visible THEN "NotFound"
                           ELSE IF ~ok THEN "Forbidden" ELSE "none",
                           row.project_id, id, row.created_by)
        /\ UNCHANGED <<projects, version_count, current_version_id,
                       project_versions, project_contributors, calls, analyses,
                       issue_comments, next_id>>

\* handleDelete behind the button of a listed comment
CommentBoxDelete(u, id) ==
    /\ \E c \in file_comments :
          c.id = id /\ c.project_id \in OrgProjects(u) /\ canDelete(u, c)
    /\ DeleteCommentHandler(u, id)

\* deleteFileComment(projectId, commentId) sent without the component
ApiDeleteComment(u, id) == DeleteCommentHandler(u, id)

-----------------------------------------------------------------------------
(* startAnalysis: POST /api/projects/{id}/analyze creates a pending row on  *)
(* the project's current version                                           *)

StartAnalysis(u, p) ==
    /\ next_id <= MaxRows
    /\ p \in OrgProjects(u)
    /\ analyses' = analyses \cup
          {AnalysisRow(next_id, p, current_version_id[p], ProjectOrg(p), "pending")}
    /\ next_id' = next_id + 1
    /\ last' = Outcome("start_analysis", u, TRUE, "none", p, next_id, u)
    /\ UNCHANGED <<projects, version_count, current_version_id, project_versions,
                   project_contributors, calls, file_comments, issue_comments>>

-----------------------------------------------------------------------------
(* Deleting a project: the foreign keys of the referencing tables *)

\* project_versions.project_id REFERENCES projects(id) ON DELETE CASCADE
CascadeVersions(p) == {r \in project_versions : r.project_id # p}

\* project_contributors.project_id REFERENCES projects(id) ON DELETE CASCADE
CascadeContributors(p) == {c \in project_contributors : c.project_id # p}

\* file_comments.project_id REFERENCES projects(id) ON DELETE CASCADE
CascadeKeepFileComments(p) == file_comments

CascadeFileComments(p) == {c \in file_comments : c.project_id # p}

\* analyses.project_id: the analyses of a deleted project go with it
CascadeAnalyses(p) == {a \in analyses : a.project_id # p}

\* issue_comments.analysis_id REFERENCES analyses(id) ON DELETE CASCADE
CascadeIssueComments(left) ==
    {c \in issue_comments : c.analysis_id \in AnalysisIdsOf(left)}

\* projects.current_version_id REFERENCES project_versions(id), no ON DELETE
\* action: a version still referenced by a remaining project row blocks the
\* statement; the row being deleted does not count
CurrentVersionFk(p) ==
    \A q \in projects \ {p} :
        \/ current_version_id[q] = NoVersion
        \/ \E r \in CascadeVersions(p) : VersionId(r) = current_version_id[q]

\* how many of the five referencing tables hold a row of project p
TablesReferencing(p) ==
    (IF CascadeVersions(p) # project_versions THEN 1 ELSE 0)
    + (IF CascadeContributors(p) # project_contributors THEN 1 ELSE 0)
    + (IF CascadeFileComments(p) # file_comments THEN 1 ELSE 0)
    + (IF CascadeAnalyses(p) # analyses THEN 1 ELSE 0)
    + (IF CascadeIssueComments(CascadeAnalyses(p)) # issue_comments THEN 1 ELSE 0)

\* DELETE /api/projects/{id} by a member of the project's organization
DeleteProject(u, p) ==
    LET visible == p \in OrgProjects(u)
        ok == visible /\ CurrentVersionFk(p)
    IN  /\ p \in projects
        /\ IF ok
           THEN /\ projects' = projects \ {p}
                /\ project_versions' = CascadeVersions(p)
                /\ project_contributors' = CascadeContributors(p)
                /\ file_comments' = CascadeFileComments(p)
                /\ analyses' = CascadeAnalyses(p)
                /\ issue_comments' = CascadeIssueComments(CascadeAnalyses(p))
                /\ version_count' = [version_count EXCEPT ![p] = 0]
                /\ current_version_id' = [current_version_id EXCEPT ![p] = NoVersion]
           ELSE UNCHANGED <<projects, project_versions, project_contributors,
                            file_comments, analyses, issue_comments, version_count,
                            current_version_id>>
        /\ last' = Outcome("delete_project", u, ok,
                           IF ~visible THEN "NotFound"
                           ELSE IF ~ok THEN "fk_violation" ELSE "none",
                           p, TablesReferencing(p), u)
        /\ UNCHANGED <<calls, next_id>>

-----------------------------------------------------------------------------
(* The analysis engine and the results endpoint (server side)               *)

Statuses == {"pending", "running", "completed", "failed"}

SetStatus(a, status) ==
    /\ analyses' = (analyses \ {a}) \cup {[a EXCEPT !.status = status]}
    /\ UNCHANGED <<projects, version_count, current_version_id, project_versions,
                   project_contributors, calls, file_comments, issue_comments,
                   next_id, last>>

\* the engine picks up a pending analysis
EngineStart(id) ==
    \E a \in analyses :
        /\ a.id = id
        /\ a.status = "pending"
        /\ SetStatus(a, "running")

\* the engine ends a running analysis, with a result or with an error
EngineFinish(id, status) ==
    \E a \in analyses :
        /\ a.id = id
        /\ a.status = "running"
        /\ status \in {"completed", "failed"}
        /\ SetStatus(a, status)

\* GET /api/results/{jobId}: the status of the row, an error when there is none
GetStatus(jobId) ==
    IF jobId \in AnalysisIdsOf(analyses)
    THEN (CHOOSE a \in analyses : a.id = jobId).status
    ELSE "error"

-----------------------------------------------------------------------------
(* DashboardPage: one poll loop per run of the effect on [jobId]            *)

EffectIds == 1..MaxEffects
JobIds == 1..MaxJobs

NoResults == <<0, "none">>

\* a run of the effect: the job it polls, its active flag, whether its
\* timeout is pending, its request (none, sent, or the answer on its way
\* back) and the status of the last response it received
NoEffect == [job |-> 0, active |-> FALSE, timer |-> FALSE, req |-> "none",
             got |-> "none"]

\* fetchResults that sends nothing
FetchResultsSkipped(e) == e

\* fetchResults up to its await: leaves at once when the run is not active
FetchResults(e) ==
    IF e.active
    THEN [e EXCEPT !.req = "sent"]
    ELSE e

\* the effect body: a new run, active, with no timeout, calls fetchResults
RunEffect(jobId) ==
    FetchResults([job |-> jobId, active |-> TRUE, timer |-> FALSE,
                  req |-> "none", got |-> "none"])

\* clearTimeout left out of the cleanup
KeepTimeout(e) == e.timer

ClearTimeout(e) == FALSE

\* the cleanup function of a run
Cleanup(e) == [e EXCEPT !.active = FALSE, !.timer = ClearTimeout(e)]

\* no second look at the flag after the await
ActiveAfterAwaitSkipped(e) == TRUE

ActiveAfterAwait(e) == e.active

\* data.status === 'running' || data.status === 'pending'
RepollAlways(status) == TRUE

ShouldRepoll(status) == status \in {"running", "pending"}

\* the reason the engine records on an analysis it ends as failed
FailureReason(jobId) == "the engine's error"

\* results.progress: the progress text of the answer held as results, which
\* for a failed analysis is its recorded reason
Progress(results) ==
    IF results = NoResults THEN NULL
    ELSE IF results[2] = "failed" THEN FailureReason(results[1])
    ELSE "progress"

\* what the page renders: the spinner with results?.progress while loading,
\* the error card when error is set or results is null, the dashboard of
\* results (risk level, summary, board, issues by category) otherwise
Rendered(v) ==
    IF v.loading
    THEN {"Analyzing PCB project...",
          IF Progress(v.results) # NULL THEN Progress(v.results)
          ELSE "Starting analysis"}
    ELSE IF v.error \/ v.results = NoResults
    THEN {IF v.error THEN "Failed to load analysis results"
          ELSE "Analysis not found"}
    ELSE {"dashboard"}

\* the page is opened on /results/jobId: fresh state, first run of the effect
Mount(jobId) ==
    /\ ~view.mounted
    /\ effect_count < MaxEffects
    /\ effect_count' = effect_count + 1
    /\ view' = [mounted |-> TRUE, jobId |-> jobId, results |-> NoResults,
                loading |-> TRUE, error |-> FALSE]
    /\ effects' = [effects EXCEPT ![effect_count + 1] = RunEffect(jobId)]
    /\ UNCHANGED <<storeVars, pageVars, authVars, shown, reports>>

\* the route parameter changes while the page stays mounted: the cleanup of
\* the current run, then a new run; the React state is kept
ChangeJob(jobId) ==
    /\ view.mounted
    /\ jobId # view.jobId
    /\ effect_count < MaxEffects
    /\ effect_count' = effect_count + 1
    /\ view' = [view EXCEPT !.jobId = jobId]
    /\ effects' = [effects EXCEPT ![effect_count] = Cleanup(@),
                                  ![effect_count + 1] = RunEffect(jobId)]
    /\ UNCHANGED <<storeVars, pageVars, authVars, shown, reports>>

\* navigation away: the cleanup of the current run
Unmount ==
    /\ view.mounted
    /\ view' = [view EXCEPT !.mounted = FALSE]
    /\ effects' = [effects EXCEPT ![effect_count] = Cleanup(@)]
    /\ UNCHANGED <<storeVars, pageVars, authVars, effect_count, shown, reports>>

\* the server answers a request with the status it reads at that moment
Respond(i) ==
    /\ effects[i].req = "sent"
    /\ effects' = [effects EXCEPT ![i].req = GetStatus(effects[i].job)]
    /\ UNCHANGED <<storeVars, pageVars, authVars, view, effect_count, shown, reports>>

\* the request fails (network, server error)
RequestFails(i) ==
    /\ effects[i].req = "sent"
    /\ effects' = [effects EXCEPT ![i].req = "error"]
    /\ UNCHANGED <<storeVars, pageVars, authVars, view, effect_count, shown, reports>>

\* the statuses shown for an analysis, in order, a run of equal ones written
\* once, and whether a status was shown twice in a row
NoReports == [seq |-> <<>>, twice |-> FALSE]

Reported(r, status) ==
    IF r.seq # <<>> /\ r.seq[Len(r.seq)] = status
    THEN [r EXCEPT !.twice = TRUE]
    ELSE [r EXCEPT !.seq = Append(@, status)]

\* fetchResults after its await, the answer being a status
ResponseArrives(i) ==
    LET e == effects[i]
        status == e.req
    IN  /\ status \in Statuses
        /\ IF ActiveAfterAwait(e)
           THEN /\ view' = [view EXCEPT !.results = <<e.job, status>>,
                                        !.loading = FALSE]
                /\ shown' = [shown EXCEPT ![e.job] = status]
                /\ reports' = [reports EXCEPT ![e.job] = Reported(@, status)]
                /\ effects' = [effects EXCEPT
                                  ![i] = [e EXCEPT !.req = "none",
                                                   !.got = status,
                                                   !.timer = ShouldRepoll(status)]]
           ELSE /\ effects' = [effects EXCEPT ![i] = [e EXCEPT !.req = "none",
                                                               !.got = status]]
                /\ UNCHANGED <<view, shown, reports>>
        /\ UNCHANGED <<storeVars, pageVars, authVars, effect_count>>

\* a catch branch that asks again
RetryAfterError(e) == e.active

\* the catch branch sets no timeout
TimerAfterError(e) == FALSE

\* fetchResults after its await, the request having failed: the catch branch
ErrorArrives(i) ==
    LET e == effects[i]
    IN  /\ e.req = "error"
        /\ effects' = [effects EXCEPT ![i] = [e EXCEPT !.req = "none",
                                                       !.got = "error",
                                                       !.timer = TimerAfterError(e)]]
        /\ view' = IF e.active
                   THEN [view EXCEPT !.error = TRUE, !.loading = FALSE]
                   ELSE view
        /\ UNCHANGED <<storeVars, pageVars, authVars, effect_count, shown, reports>>

\* the timeout of a run fires and calls fetchResults
TimerFires(i) ==
    /\ effects[i].timer
    /\ effects' = [effects EXCEPT ![i] = FetchResults([@ EXCEPT !.timer = FALSE])]
    /\ UNCHANGED <<storeVars, pageVars, authVars, view, effect_count, shown, reports>>

-----------------------------------------------------------------------------
(* Batch analysis: ProjectsPage and POST /api/analyze/batch                 *)

\* the selections the page can send: project ids in some order, none twice
Selections ==
    {ids \in UNION {[1..n -> ProjectIds] : n \in 1..Cardinality(ProjectIds)} :
        \A i \in DOMAIN ids, k \in DOMAIN ids : ids[i] = ids[k] => i = k}

\* AnalysisJob: id, project_id, status
AnalysisJob(id, p) == [id |-> id, project_id |-> p, status |-> "pending"]

\* the jobs the handler creates for the ids it can start, in the order asked;
\* an id that is unknown or not visible to the caller is passed over
RECURSIVE BatchJobs(_, _, _)
BatchJobs(ids, u, id) ==
    IF ids = <<>> THEN <<>>
    ELSE IF Head(ids) \in OrgProjects(u)
         THEN <<AnalysisJob(id, Head(ids))>> \o BatchJobs(Tail(ids), u, id + 1)
         ELSE BatchJobs(Tail(ids), u, id)

\* the handler: one pending analysis per project it can start
BatchStart(u, ids) ==
    LET jobs == BatchJobs(ids, u, next_id)
    IN  /\ next_id + Len(jobs) - 1 <= MaxRows
        /\ analyses' = analyses \cup
              {AnalysisRow(jobs[k].id, jobs[k].project_id,
                           current_version_id[jobs[k].project_id],
                           ProjectOrg(jobs[k].project_id), "pending") :
                  k \in DOMAIN jobs}
        /\ next_id' = next_id + Len(jobs)
        /\ last' = Outcome("batch_analyze", u, jobs # <<>>,
                           IF jobs = <<>> THEN "NotFound" ELSE "none",
                           NULL, Len(jobs), u)
        /\ UNCHANGED <<projects, version_count, current_version_id,
                       project_versions, project_contributors, calls,
                       file_comments, issue_comments>>

\* batchAnalyze: what the call resolves to, { success, jobs }
BatchResponse(u, ids) ==
    LET jobs == BatchJobs(ids, u, next_id)
    IN  [success |-> Len(jobs) = Len(ids), jobs |-> jobs]

NoBatch == [by |-> NULL, requested |-> <<>>, success |-> FALSE, jobs |-> <<>>,
            navigated |-> 0, error |-> FALSE]

\* handleBatchAnalyze with the call answered: go to the dashboard of the
\* first job, clear the selection
handleBatchAnalyze(u, ids) ==
    LET result == BatchResponse(u, ids)
    IN  /\ ids # <<>>
        /\ BatchStart(u, ids)
        /\ batch' = [by |-> u, requested |-> ids, success |-> result.success,
                     jobs |-> result.jobs,
                     navigated |-> IF Len(result.jobs) > 0
                                   THEN result.jobs[1].id ELSE 0,
                     error |-> FALSE]
        /\ UNCHANGED <<authVars, pollVars, detail, form>>

\* handleBatchAnalyze with the call rejected: the catch branch
handleBatchAnalyzeFailed(u, ids) ==
    /\ ids # <<>>
    /\ batch' = [NoBatch EXCEPT !.by = u, !.requested = ids, !.error = TRUE]
    /\ UNCHANGED <<storeVars, authVars, pollVars, detail, form>>

-----------------------------------------------------------------------------
\* the tables as the migration leaves them, no request under way, the
\* results page not opened
(***************************************************************************)
(* project_versions: UPDATE and DELETE by a tenant                         *)
(***************************************************************************)

\* project_versions has a policy FOR SELECT and one FOR INSERT and no other:
\* with row level security on, UPDATE and DELETE reach no row
VersionWritePolicyAsSelect(caller, r) ==
    ~RlsOn(caller) \/ r.organization_id = UserOrg(caller)
VersionWritePolicy(caller, r) ==
    ~RlsOn(caller)

\* the rows of version n of project p a statement of the caller may write
WritableVersions(caller, p, n) ==
    {r \in VisibleVersions(caller) :
        /\ r.project_id = p
        /\ r.version_number = n
        /\ VersionWritePolicy(caller, r)}

\* UPDATE project_versions SET uploaded_by = by WHERE project_id = p AND
\* version_number = n, sent by tenant u
TenantUpdateVersion(u, p, n, by) ==
    LET hit == WritableVersions(u, p, n)
    IN  /\ project_versions' = (project_versions \ hit) \cup
              {[r EXCEPT !.uploaded_by = by] : r \in hit}
        /\ last' = Outcome("update_version", u, hit # {},
                           IF hit = {} THEN "no_rows" ELSE "none", p, n, by)
        /\ UNCHANGED <<projects, version_count, current_version_id,
                       project_contributors, calls, file_comments, analyses,
                       issue_comments, next_id>>

\* DELETE FROM project_versions WHERE project_id = p AND version_number = n,
\* sent by tenant u; projects.current_version_id holds back a referenced row
TenantDeleteVersion(u, p, n) ==
    LET hit == WritableVersions(u, p, n)
        referenced == \E r \in hit, q \in projects :
                          current_version_id[q] = VersionId(r)
    IN  /\ project_versions' = IF referenced THEN project_versions
                               ELSE project_versions \ hit
        /\ last' = Outcome("delete_version", u, hit # {} /\ ~referenced,
                           IF hit = {} THEN "no_rows"
                           ELSE IF referenced THEN "fk_violation" ELSE "none",
                           p, n, u)
        /\ UNCHANGED <<projects, version_count, current_version_id,
                       project_contributors, calls, file_comments, analyses,
                       issue_comments, next_id>>

(***************************************************************************)
(* ProjectDetailPage: loading, uploading a version, starting an analysis   *)
(***************************************************************************)

\* the rows of a listing, the highest version number first
RECURSIVE NewestFirst(_)
NewestFirst(numbers) ==
    IF numbers = {} THEN <<>>
    ELSE LET n == CHOOSE m \in numbers : \A k \in numbers : k <= m
         IN  <<n>> \o NewestFirst(numbers \ {n})

\* GET /api/projects/{id}/versions: the versions of p the caller may see
ListVersions(u, p) ==
    NewestFirst({r.version_number : r \in VersionsOf(p) \cap VisibleVersions(u)})

\* the rows of a listing of comments, the lowest id, the oldest, first
RECURSIVE OldestFirst(_)
OldestFirst(rows) ==
    IF rows = {} THEN <<>>
    ELSE LET c == CHOOSE x \in rows : \A y \in rows : x.id <= y.id
         IN  <<c>> \o OldestFirst(rows \ {c})

\* GET /api/projects/{id}/comments over the rows of table file_comments: the
\* comments on the files of p, for a caller who can see the project
ListFileComments(u, p, rows) ==
    OldestFirst({c \in rows : c.project_id = p /\ p \in OrgProjects(u)})

\* the page before it is opened, and its state right after mounting
NoDetail == [open |-> FALSE, projectId |-> NULL, loading |-> TRUE,
             error |-> FALSE, isAnalyzing |-> FALSE, navigated |-> 0,
             versions |-> <<>>, isUploadingVersion |-> FALSE, uploaded |-> 0,
             fileComments |-> <<>>, refreshing |-> FALSE]

\* the route /projects/:projectId is opened: a fresh component, whose effect
\* starts loadProject
OpenDetail(u, p) ==
    /\ ~detail[u].open
    /\ ~detail[u].isUploadingVersion
    /\ detail' = [detail EXCEPT ![u] = [NoDetail EXCEPT !.open = TRUE,
                                                        !.projectId = p]]
    /\ UNCHANGED <<storeVars, authVars, pollVars, batch, form>>

\* loadProject: the requests are answered, setVersions(versionsData)
LoadAnswered(u) ==
    /\ detail[u].open
    /\ detail[u].loading
    /\ detail[u].projectId \in OrgProjects(u)
    /\ detail' = [detail EXCEPT
          ![u].loading = FALSE,
          ![u].versions = ListVersions(u, detail[u].projectId),
          ![u].fileComments = ListFileComments(u, detail[u].projectId, file_comments)]
    /\ UNCHANGED <<storeVars, authVars, pollVars, batch, form>>

\* loadProject: getProjectV2 is rejected, the catch branch sets the error
LoadRejected(u) ==
    /\ detail[u].open
    /\ detail[u].loading
    /\ detail[u].projectId \notin OrgProjects(u)
    /\ detail' = [detail EXCEPT ![u].loading = FALSE, ![u].error = TRUE]
    /\ UNCHANGED <<storeVars, authVars, pollVars, batch, form>>

\* the page shows the project, with its buttons, once it is loaded and
\* while no error is set
Rendering(d) == d.open /\ ~d.loading /\ ~d.error

\* the guard of handleStartAnalysis: nothing happens while a start is pending
StartGuard(d) == Rendering(d) /\ ~d.isAnalyzing

\* handleStartAnalysis up to its await: the guard, then setIsAnalyzing(true)
handleStartAnalysis(u) ==
    /\ StartGuard(detail[u])
    /\ detail' = [detail EXCEPT ![u].isAnalyzing = TRUE]
    /\ UNCHANGED <<storeVars, authVars, pollVars, batch, form>>

\* the request is answered with the new analysis: navigate to its dashboard,
\* which unmounts the page
StartAnswered(u) ==
    /\ detail[u].open
    /\ detail[u].isAnalyzing
    /\ StartAnalysis(u, detail[u].projectId)
    /\ detail' = [detail EXCEPT ![u] =
                     [NoDetail EXCEPT !.navigated = next_id,
                                      !.isUploadingVersion =
                                          detail[u].isUploadingVersion,
                                      !.projectId = detail[u].projectId]]
    /\ UNCHANGED <<authVars, pollVars, batch, form>>

\* the request is rejected (the project is gone): the catch branch sets the
\* error and releases the button
StartRejected(u) ==
    /\ detail[u].open
    /\ detail[u].isAnalyzing
    /\ detail[u].projectId \notin OrgProjects(u)
    /\ detail' = [detail EXCEPT ![u].isAnalyzing = FALSE, ![u].error = TRUE]
    /\ UNCHANGED <<storeVars, authVars, pollVars, batch, form>>

\* the guard of handleUploadVersion, a file being chosen
UploadGuard(d) == Rendering(d) /\ ~d.isUploadingVersion

\* handleUploadVersion up to its await: setIsUploadingVersion(true)
handleUploadVersion(u) ==
    /\ UploadGuard(detail[u])
    /\ detail' = [detail EXCEPT ![u].isUploadingVersion = TRUE]
    /\ UNCHANGED <<storeVars, authVars, pollVars, batch, form>>

\* setVersions(prev => [newVersion, ...prev])
AppendedVersion(new, prev) == prev \o <<new>>
PrependedVersion(new, prev) == <<new>> \o prev

\* createProjectVersion is answered with the new version: it is put in front
\* of the list; a page that is gone by then keeps nothing
UploadAnswered(u) ==
    LET p == detail[u].projectId
        new == NextVersionNumber(p)
    IN  /\ detail[u].isUploadingVersion
        /\ p \in OrgProjects(u)
        /\ CreateVersionSerial(u, p)
        /\ detail' = [detail EXCEPT
              ![u].isUploadingVersion = FALSE,
              ![u].versions = IF detail[u].open
                              THEN PrependedVersion(new, detail[u].versions)
                              ELSE detail[u].versions,
              ![u].uploaded = IF detail[u].open THEN new ELSE 0]
        /\ UNCHANGED <<authVars, pollVars, batch, form>>

\* createProjectVersion is rejected (the project is gone): the catch branch
\* shows the message, finally releases the button
UploadRejected(u) ==
    LET p == detail[u].projectId
    IN  /\ detail[u].isUploadingVersion
        /\ p \notin OrgProjects(u)
        /\ CreateVersionSerial(u, p)
        /\ detail' = [detail EXCEPT ![u].isUploadingVersion = FALSE]
        /\ UNCHANGED <<authVars, pollVars, batch, form>>

(***************************************************************************)
(* Adding a comment: the handler and the CommentBox form                   *)
(***************************************************************************)

\* what addComment answers: ValidationError for the empty body, NotFound for
\* a project the caller cannot see, and the error of the INSERT when the
\* table rejects the row
AddCommentError(u, p, path, body, at) ==
    IF body = "" THEN "ValidationError"
    ELSE IF p \notin OrgProjects(u) THEN "NotFound"
    ELSE IF ~UniqueFileComment(FileCommentRow(next_id, p, path, body, at, u))
    THEN "unique_violation"
    ELSE "none"

\* addComment on a file: POST /api/projects/{id}/files/{path}/comments,
\* handled at time at (created_at DEFAULT NOW())
AddFileComment(u, p, path, body, at) ==
    LET err == AddCommentError(u, p, path, body, at)
        new == FileCommentRow(next_id, p, path, body, at, u)
    IN  /\ next_id <= MaxRows
        /\ file_comments' = IF err = "none" THEN file_comments \cup {new}
                            ELSE file_comments
        /\ next_id' = IF err = "none" THEN next_id + 1 ELSE next_id
        /\ last' = Outcome("add_comment", u, err = "none", err, p, next_id, u)
        /\ UNCHANGED <<projects, version_count, current_version_id,
                       project_versions, project_contributors, calls, analyses,
                       issue_comments>>

\* addFileComment called with any body, not through the form
ApiAddFileComment(u, p, path, body, at) == AddFileComment(u, p, path, body, at)

\* the form of a CommentBox on the files of project p1, nothing typed
NoForm == [by |-> NULL, path |-> NULL, newComment |-> "", isSubmitting |-> FALSE,
           submitted |-> NULL]

\* onChange of the textarea: setNewComment
TypeComment(b) ==
    /\ form' = [form EXCEPT !.newComment = b]
    /\ UNCHANGED <<storeVars, authVars, pollVars, batch, detail>>

\* the guard of handleSubmit
SubmitGuard(f) == Trim(f.newComment) # "" /\ ~f.isSubmitting

\* handleSubmit up to its await: the guard, setIsSubmitting(true) and
\* onAddComment(newComment.trim(), ...) sent by user u for file path
handleSubmit(u, path) ==
    /\ SubmitGuard(form)
    /\ form' = [form EXCEPT !.by = u, !.path = path, !.isSubmitting = TRUE,
                            !.submitted = Trim(form.newComment)]
    /\ UNCHANGED <<storeVars, authVars, pollVars, batch, detail>>

\* the comment was stored: the form is emptied and released
SubmitAnswered ==
    /\ form.isSubmitting
    /\ AddCommentError(form.by, "p1", form.path, form.submitted, next_id) = "none"
    /\ AddFileComment(form.by, "p1", form.path, form.submitted, next_id)
    /\ form' = [form EXCEPT !.newComment = "", !.isSubmitting = FALSE]
    /\ UNCHANGED <<authVars, pollVars, batch, detail>>

\* the request failed: the catch branch logs, finally releases the form
SubmitRejected ==
    /\ form.isSubmitting
    /\ AddCommentError(form.by, "p1", form.path, form.submitted, next_id) # "none"
    /\ AddFileComment(form.by, "p1", form.path, form.submitted, next_id)
    /\ form' = [form EXCEPT !.isSubmitting = FALSE]
    /\ UNCHANGED <<authVars, pollVars, batch, detail>>

(***************************************************************************)
(* ProjectDetailPage: comments on files and their counts per file          *)
(***************************************************************************)

\* the paths of the files of a project: any text; one of them is the name of
\* a property every JavaScript object inherits
TreePaths == FilePaths \cup {"constructor"}

\* JavaScript values held under a key of the counts object: a number, the
\* value of an inherited property, text, or undefined
Number(n) == [type |-> "number", n |-> n]
Inherited == [type |-> "function", n |-> 0]
Text == [type |-> "string", n |-> 0]
Undefined == [type |-> "undefined", n |-> 0]

\* {} as Record<string, number>: no own property
EmptyObject == [k \in {} |-> Undefined]

\* acc[key]: the own property, else the one inherited from Object.prototype
Lookup(acc, key) ==
    IF key \in DOMAIN acc THEN acc[key]
    ELSE IF key = "constructor" THEN Inherited
    ELSE Undefined

\* value || 0
OrZero(value) ==
    IF value.type = "undefined" \/ value = Number(0) THEN Number(0) ELSE value

\* value + 1: addition for a number, text for anything else
PlusOne(value) ==
    IF value.type = "number" THEN Number(value.n + 1) ELSE Text

\* fileComments.reduce((acc, comment) => { acc[comment.file_path] =
\* (acc[comment.file_path] || 0) + 1; return acc }, {})
RECURSIVE Reduced(_, _)
Reduced(list, acc) ==
    IF list = <<>> THEN acc
    ELSE LET key == Head(list).file_path
             value == PlusOne(OrZero(Lookup(acc, key)))
         IN  Reduced(Tail(list),
                     [k \in DOMAIN acc \cup {key} |->
                         IF k = key THEN value ELSE acc[k]])

commentsByFile(list) == Reduced(list, EmptyObject)

\* FileTreeNodeComponent: const commentCount = fileComments[node.path] || 0
commentCount(counts, path) == OrZero(Lookup(counts, path))

\* handleSubmitFileComment up to its second await: addFileComment is answered
\* with the new comment, getProjectFileComments is sent
handleSubmitFileComment(u, path, at) ==
    LET p == detail[u].projectId
    IN  /\ Rendering(detail[u])
        /\ AddCommentError(u, p, path, "text", at) = "none"
        /\ AddFileComment(u, p, path, "text", at)
        /\ detail' = [detail EXCEPT ![u].refreshing = TRUE]
        /\ UNCHANGED <<authVars, pollVars, batch, form>>

\* handleDeleteFileComment up to its second await: deleteFileComment is
\* answered, getProjectFileComments is sent
handleDeleteFileComment(u, id) ==
    LET hit == {c \in file_comments : c.id = id}
    IN  /\ Rendering(detail[u])
        /\ \E c \in hit : c.created_by = u /\ c.project_id \in OrgProjects(u)
        /\ DeleteCommentHandler(u, id)
        /\ detail' = [detail EXCEPT ![u].refreshing = TRUE]
        /\ UNCHANGED <<authVars, pollVars, batch, form>>

\* getProjectFileComments is answered: setFileComments(comments)
CommentsRefreshed(u) ==
    /\ detail[u].open
    /\ detail[u].refreshing
    /\ detail' = [detail EXCEPT
          ![u].refreshing = FALSE,
          ![u].fileComments = ListFileComments(u, detail[u].projectId, file_comments)]
    /\ UNCHANGED <<storeVars, authVars, pollVars, batch, form>>

(***************************************************************************)
(* AuthProvider (AuthContext.tsx, the provider with the fetchingRef guard) *)
(* and the login form.  The client library's results are chosen freely:    *)
(* a sign-in or sign-out is accepted or refused, a select answers with the *)
(* row or with an error.  A successful sign-in or sign-out leaves one      *)
(* auth-state event for the callback; the callback gets it before the next *)
(* signIn or signOut is called, but before or after the caller continues.  *)
(***************************************************************************)

\* useState and useRef of AuthProvider, and the session held by the client
NoAuth ==
    [user |-> NULL, organization |-> NULL, session |-> NULL, loading |-> TRUE,
     fetchingRef |-> FALSE, lastFetchedUserIdRef |-> NULL,
     restoring |-> TRUE, clientSession |-> NULL]

\* no fetchUserData call is between its first statement and its finally
NoFetch == [pc |-> "none", userId |-> NULL, caller |-> NULL]

\* no call of the kind is in progress
NoCall == [pc |-> "idle", userId |-> NULL]

\* the two early returns of fetchUserData
FetchSkipped(a, userId, force) ==
    \/ a.fetchingRef
    \/ ~force /\ a.lastFetchedUserIdRef = userId

\* fetchUserData up to its first await: the guard is taken and the select on
\* users is sent
FetchStarted(userId, caller) ==
    [pc |-> "users", userId |-> userId, caller |-> caller]

\* the try block of fetchUserData after both rows have arrived, and finally
FetchSucceeded(a, userId) ==
    [a EXCEPT !.lastFetchedUserIdRef = userId,
              !.user = userId,
              !.organization = UserOrg(userId),
              !.fetchingRef = FALSE]

\* the catch block of fetchUserData, and finally
FetchFailed(a) ==
    [a EXCEPT !.lastFetchedUserIdRef = NULL,
              !.user = NULL,
              !.organization = NULL,
              !.fetchingRef = FALSE]

\* the caller of a finished fetchUserData continues: signIn resolves or
\* rejects with it, the callback catches the error and clears loading
CallerContinues(a, ok) ==
    /\ auth' = IF fetching.caller = "callback"
               THEN [a EXCEPT !.loading = FALSE] ELSE a
    /\ signInCall' = IF fetching.caller = "signIn"
                     THEN [signInCall EXCEPT
                              !.pc = IF ok THEN "resolved" ELSE "rejected"]
                     ELSE signInCall
    /\ fetching' = NoFetch

\* getSession answers on a browser that holds no session
GetSessionAnswered ==
    /\ auth.restoring
    /\ auth' = [auth EXCEPT !.restoring = FALSE, !.session = NULL,
                            !.loading = FALSE]
    /\ UNCHANGED <<fetching, signInCall, signOutCall, events>>

\* handleSubmit of the login form calls signIn, which sends signInWithPassword
signIn(u) ==
    /\ signInCall.pc = "idle" /\ signOutCall.pc = "idle"
    /\ events = <<>>
    /\ signInCall' = [pc |-> "auth", userId |-> u]
    /\ UNCHANGED <<auth, fetching, signOutCall, events>>

\* signInWithPassword succeeded: the client holds the session and emits SIGNED_IN
SignInAccepted ==
    /\ signInCall.pc = "auth"
    /\ auth' = [auth EXCEPT !.clientSession = signInCall.userId]
    /\ events' = Append(events, <<"SIGNED_IN", signInCall.userId>>)
    /\ signInCall' = [signInCall EXCEPT !.pc = "signed"]
    /\ UNCHANGED <<fetching, signOutCall>>

\* signInWithPassword answered with an error: signIn throws it
SignInRefused ==
    /\ signInCall.pc = "auth"
    /\ signInCall' = [signInCall EXCEPT !.pc = "rejected"]
    /\ UNCHANGED <<auth, fetching, signOutCall, events>>

\* signIn after its first await: fetchUserData(data.user.id, true)
SignInFetches ==
    /\ signInCall.pc = "signed"
    /\ IF FetchSkipped(auth, signInCall.userId, TRUE)
       THEN /\ signInCall' = [signInCall EXCEPT !.pc = "resolved"]
            /\ UNCHANGED <<auth, fetching>>
       ELSE /\ auth' = [auth EXCEPT !.fetchingRef = TRUE]
            /\ fetching' = FetchStarted(signInCall.userId, "signIn")
            /\ signInCall' = [signInCall EXCEPT !.pc = "fetch"]
    /\ UNCHANGED <<signOutCall, events>>

\* the callback given to onAuthStateChange, up to its first await
AuthStateChange ==
    /\ events # <<>>
    /\ events' = Tail(events)
    /\ LET event == Head(events)[1]
           id == Head(events)[2]
       IN  IF event = "SIGNED_OUT"
           THEN /\ auth' = [auth EXCEPT !.session = NULL,
                                        !.user = NULL,
                                        !.organization = NULL,
                                        !.lastFetchedUserIdRef = NULL,
                                        !.loading = FALSE]
                /\ UNCHANGED fetching
           ELSE IF /\ auth.lastFetchedUserIdRef # id
                   /\ ~FetchSkipped(auth, id, FALSE)
                THEN /\ auth' = [auth EXCEPT !.session = id,
                                             !.fetchingRef = TRUE]
                     /\ fetching' = FetchStarted(id, "callback")
                ELSE /\ auth' = [auth EXCEPT !.session = id,
                                             !.loading = FALSE]
                     /\ UNCHANGED fetching
    /\ UNCHANGED <<signInCall, signOutCall>>

\* the select on users answers: with the row, and the select on organizations
\* is sent; or with an error, and the catch block runs
UsersAnswered(ok) ==
    /\ fetching.pc = "users"
    /\ IF ok
       THEN /\ fetching' = [fetching EXCEPT !.pc = "organizations"]
            /\ UNCHANGED <<auth, signInCall>>
       ELSE CallerContinues(FetchFailed(auth), FALSE)
    /\ UNCHANGED <<signOutCall, events>>

\* the select on organizations answers
OrganizationAnswered(ok) ==
    /\ fetching.pc = "organizations"
    /\ IF ok
       THEN CallerContinues(FetchSucceeded(auth, fetching.userId), TRUE)
       ELSE CallerContinues(FetchFailed(auth), FALSE)
    /\ UNCHANGED <<signOutCall, events>>

\* handleSubmit after signIn resolved: navigate('/projects')
LoginNavigates ==
    /\ signInCall.pc = "resolved"
    /\ signInCall' = NoCall
    /\ UNCHANGED <<auth, fetching, signOutCall, events>>

\* handleSubmit after signIn threw: the form shows the error
LoginShowsError ==
    /\ signInCall.pc = "rejected"
    /\ signInCall' = NoCall
    /\ UNCHANGED <<auth, fetching, signOutCall, events>>

\* signOut is called while the client holds a session
signOut ==
    /\ signOutCall.pc = "idle" /\ signInCall.pc = "idle"
    /\ events = <<>>
    /\ auth.clientSession # NULL
    /\ signOutCall' = [pc |-> "auth", userId |-> auth.clientSession]
    /\ UNCHANGED <<auth, fetching, signInCall, events>>

\* auth.signOut succeeded: the client drops the session and emits SIGNED_OUT,
\* and signOut clears the provider's state
SignOutAccepted ==
    /\ signOutCall.pc = "auth"
    /\ auth' = [auth EXCEPT !.clientSession = NULL,
                            !.user = NULL,
                            !.organization = NULL,
                            !.session = NULL,
                            !.lastFetchedUserIdRef = NULL]
    /\ events' = Append(events, <<"SIGNED_OUT", NULL>>)
    /\ signOutCall' = NoCall
    /\ UNCHANGED <<fetching, signInCall>>

\* auth.signOut answered with an error: signOut throws it
SignOutRefused ==
    /\ signOutCall.pc = "auth"
    /\ signOutCall' = NoCall
    /\ UNCHANGED <<auth, fetching, signInCall, events>>

Init ==
    /\ projects = ProjectIds
    /\ project_versions = MigratedVersions
    /\ project_contributors = MigratedContributors
    /\ version_count = [p \in ProjectIds |-> CountedVersions(p, MigratedVersions)]
    /\ current_version_id = [p \in ProjectIds |-> NoVersion]
    /\ calls = [c \in CallIds |-> IdleCall]
    /\ file_comments = {}
    /\ analyses = {}
    /\ issue_comments = {}
    /\ next_id = 1
    /\ last = Outcome("migration", SERVICE, TRUE, "none", NULL, 0, NULL)
    /\ view = [mounted |-> FALSE, jobId |-> 0, results |-> NoResults,
               loading |-> TRUE, error |-> FALSE]
    /\ effects = [i \in EffectIds |-> NoEffect]
    /\ effect_count = 0
    /\ shown = [j \in JobIds |-> "none"]
    /\ reports = [j \in JobIds |-> NoReports]
    /\ batch = NoBatch
    /\ detail = [u \in Users |-> NoDetail]
    /\ form = NoForm
    /\ auth = NoAuth
    /\ fetching = NoFetch
    /\ signInCall = NoCall
    /\ signOutCall = NoCall
    /\ events = <<>>

-----------------------------------------------------------------------------
(* Specifications.  Each explores one part of the system from the migrated  *)
(* state; the variables of the other parts keep their initial values.       *)

NextVersions ==
    \/ \E u \in Users, p \in ProjectIds, n \in 1..MaxVersion, by \in Users,
          org \in Orgs : TenantInsertVersion(u, p, n, by, org) /\ UNCHANGED uiVars
    \/ \E u \in Users, p \in ProjectIds, t \in Users : TenantInsertContributor(u, p, t) /\ UNCHANGED uiVars
    \/ \E u \in Users, p \in ProjectIds : CreateVersionSerial(u, p) /\ UNCHANGED uiVars
    \/ \E u \in Users, p \in ProjectIds : DeleteProject(u, p) /\ UNCHANGED uiVars

SpecVersions == Init /\ [][NextVersions]_vars

NextUpload ==
    \/ \E c \in CallIds, u \in Users, p \in ProjectIds : CreateVersionBegin(c, u, p) /\ UNCHANGED uiVars
    \/ \E c \in CallIds : CreateVersionInsert(c) /\ UNCHANGED uiVars
    \/ \E c \in CallIds : CreateVersionRead(c) /\ UNCHANGED uiVars

SpecUpload == Init /\ [][NextUpload]_vars

NextThreads ==
    \/ \E u \in Users, p \in ProjectIds, f \in FilePaths, by \in Users :
          TenantInsertFileComment(u, p, f, "text", next_id, by) /\ UNCHANGED uiVars
    \/ \E u \in Users, id \in 1..MaxRows : TenantDeleteFileComment(u, id) /\ UNCHANGED uiVars
    \/ \E u \in Users, a \in 1..MaxRows, i \in IssueIds, by \in Users :
          TenantInsertIssueComment(u, a, i, "text", by) /\ UNCHANGED uiVars
    \/ \E u \in Users, id \in 1..MaxRows : TenantDeleteIssueComment(u, id) /\ UNCHANGED uiVars
    \/ \E u \in Users, id \in 1..MaxRows : CommentBoxDelete(u, id) /\ UNCHANGED uiVars
    \/ \E u \in Users, id \in 1..MaxRows : ApiDeleteComment(u, id) /\ UNCHANGED uiVars
    \/ \E u \in Users, p \in ProjectIds : StartAnalysis(u, p) /\ UNCHANGED uiVars
    \/ \E u \in Users, p \in ProjectIds : DeleteProject(u, p) /\ UNCHANGED uiVars

SpecThreads == Init /\ [][NextThreads]_vars




\* Every statement a signed-in user can send to the four tenant tables.  A
\* statement on the version tables reads and writes no comment table and the
\* reverse, and none writes projects, so a run works on one of the two
\* families and leaves the other as the migration left it.
VersionTablesUntouched ==
    /\ project_versions = MigratedVersions
    /\ project_contributors = MigratedContributors

CommentTablesUntouched ==
    /\ file_comments = {}
    /\ issue_comments = {}
    /\ analyses = {}

NextTenant ==
    \/ \E u \in Users, p \in ProjectIds, n \in 1..MaxVersion, by \in Users,
          org \in Orgs :
          CommentTablesUntouched /\ TenantInsertVersion(u, p, n, by, org) /\ UNCHANGED uiVars
    \/ \E u \in Users, p \in ProjectIds, t \in Users :
          CommentTablesUntouched /\ TenantInsertContributor(u, p, t) /\ UNCHANGED uiVars
    \/ \E u \in Users, p \in ProjectIds :
          CommentTablesUntouched /\ TenantSelectVersions(u, p) /\ UNCHANGED uiVars
    \/ \E u \in Users, p \in ProjectIds :
          CommentTablesUntouched /\ TenantSelectContributors(u, p) /\ UNCHANGED uiVars
    \/ \E u \in Users, p \in ProjectIds, f \in FilePaths, by \in Users :
          VersionTablesUntouched /\ TenantInsertFileComment(u, p, f, "text", next_id, by) /\ UNCHANGED uiVars
    \/ \E u \in Users, id \in 1..MaxRows :
          VersionTablesUntouched /\ TenantDeleteFileComment(u, id) /\ UNCHANGED uiVars
    \/ \E u \in Users, a \in 1..MaxRows, i \in IssueIds, by \in Users :
          VersionTablesUntouched /\ TenantInsertIssueComment(u, a, i, "text", by) /\ UNCHANGED uiVars
    \/ \E u \in Users, id \in 1..MaxRows :
          VersionTablesUntouched /\ TenantDeleteIssueComment(u, id) /\ UNCHANGED uiVars
    \/ \E u \in Users, p \in ProjectIds :
          VersionTablesUntouched /\ TenantSelectFileComments(u, p) /\ UNCHANGED uiVars
    \/ \E u \in Users, a \in 1..MaxRows :
          VersionTablesUntouched /\ TenantSelectIssueComments(u, a) /\ UNCHANGED uiVars
    \/ \E u \in Users, p \in ProjectIds :
          VersionTablesUntouched /\ StartAnalysis(u, p) /\ UNCHANGED uiVars

SpecTenant == Init /\ [][NextTenant]_vars

\* uploads, comments and analyses of a project, then its deletion
NextCascade ==
    \/ \E u \in Users, p \in ProjectIds : CreateVersionSerial(u, p) /\ UNCHANGED uiVars
    \/ \E u \in Users, p \in ProjectIds, f \in FilePaths :
          TenantInsertFileComment(u, p, f, "text", next_id, u) /\ UNCHANGED uiVars
    \/ \E u \in Users, a \in 1..MaxRows, i \in IssueIds :
          TenantInsertIssueComment(u, a, i, "text", u) /\ UNCHANGED uiVars
    \/ \E u \in Users, p \in ProjectIds : StartAnalysis(u, p) /\ UNCHANGED uiVars
    \/ \E u \in Users, p \in ProjectIds : DeleteProject(u, p) /\ UNCHANGED uiVars

SpecCascade == Init /\ [][NextCascade]_vars

\* one user starts analyses of a project and watches them on the results
\* page while the engine works
NextPoller ==
    \/ next_id <= MaxJobs /\ StartAnalysis("u1", "p1") /\ UNCHANGED uiVars
    \/ \E id \in JobIds : EngineStart(id) /\ UNCHANGED uiVars
    \/ \E id \in JobIds, status \in Statuses :
          EngineFinish(id, status) /\ UNCHANGED uiVars
    \/ \E j \in JobIds : Mount(j)
    \/ \E j \in JobIds : ChangeJob(j)
    \/ Unmount
    \/ \E i \in EffectIds : Respond(i)
    \/ \E i \in EffectIds : RequestFails(i)
    \/ \E i \in EffectIds : ResponseArrives(i)
    \/ \E i \in EffectIds : ErrorArrives(i)
    \/ \E i \in EffectIds : TimerFires(i)

SpecPoller == Init /\ [][NextPoller]_vars

\* the page is opened on an analysis that exists and stays mounted, every
\* request is answered with a status, and the engine runs the analyses
NextPollerLive ==
    \/ next_id <= MaxJobs /\ StartAnalysis("u1", "p1") /\ UNCHANGED uiVars
    \/ \E id \in JobIds : EngineStart(id) /\ UNCHANGED uiVars
    \/ \E id \in JobIds, status \in Statuses :
          EngineFinish(id, status) /\ UNCHANGED uiVars
    \/ \E j \in JobIds : j \in AnalysisIdsOf(analyses) /\ Mount(j)
    \/ \E i \in EffectIds : Respond(i)
    \/ \E i \in EffectIds : ResponseArrives(i)
    \/ \E i \in EffectIds : TimerFires(i)

\* the engine ends every analysis it has, the server answers every request,
\* and the browser delivers every answer and fires every timeout
FairPoller ==
    /\ \A id \in JobIds :
          /\ WF_vars(EngineStart(id) /\ UNCHANGED uiVars)
          /\ WF_vars(\E status \in Statuses :
                        EngineFinish(id, status) /\ UNCHANGED uiVars)
    /\ \A i \in EffectIds :
          /\ WF_vars(Respond(i))
          /\ WF_vars(ResponseArrives(i))
          /\ WF_vars(TimerFires(i))

SpecPollerLive == Init /\ [][NextPollerLive]_vars /\ FairPoller

\* users send batches from the projects page
NextBatch ==
    \/ \E u \in Users, ids \in Selections : handleBatchAnalyze(u, ids)
    \/ \E u \in Users, ids \in Selections : handleBatchAnalyzeFailed(u, ids)

SpecBatch == Init /\ [][NextBatch]_vars

\* users open the page of project p1 and start analyses, which the engine
\* runs, while the owner uploads versions and in the end deletes the project
NextAnalyze ==
    \/ \E u \in Users : OpenDetail(u, "p1")
    \/ \E u \in Users : LoadAnswered(u)
    \/ \E u \in Users : LoadRejected(u)
    \/ \E u \in Users : handleStartAnalysis(u)
    \/ \E u \in Users : StartAnswered(u)
    \/ \E u \in Users : StartRejected(u)
    \/ CreateVersionSerial("u1", "p1") /\ UNCHANGED uiVars
    \/ \E id \in 1..MaxRows : EngineStart(id) /\ UNCHANGED uiVars
    \/ \E id \in 1..MaxRows, status \in {"completed", "failed"} :
          EngineFinish(id, status) /\ UNCHANGED uiVars
    \/ DeleteProject("u1", "p1") /\ UNCHANGED uiVars

SpecAnalyze == Init /\ [][NextAnalyze]_vars

\* users open project pages and upload versions from them, while tenants
\* insert versions with their own statements and the owner deletes a project
NextVersionList ==
    \/ \E u \in Users, p \in ProjectIds : OpenDetail(u, p)
    \/ \E u \in Users : LoadAnswered(u)
    \/ \E u \in Users : LoadRejected(u)
    \/ \E u \in Users : handleUploadVersion(u)
    \/ \E u \in Users : UploadAnswered(u)
    \/ \E u \in Users : UploadRejected(u)
    \/ \E n \in 1..MaxVersion :
          TenantInsertVersion("u2", "p1", n, "u2", "A") /\ UNCHANGED uiVars
    \/ DeleteProject("u1", "p1") /\ UNCHANGED uiVars

SpecVersionList == Init /\ [][NextVersionList]_vars

\* versions are uploaded, tenants try to rewrite and to remove them, and
\* projects are deleted
NextHistory ==
    \/ \E u \in Users, p \in ProjectIds : CreateVersionSerial(u, p) /\ UNCHANGED uiVars
    \/ \E u \in Users, p \in ProjectIds, n \in 1..MaxVersion, by \in Users :
          TenantUpdateVersion(u, p, n, by) /\ UNCHANGED uiVars
    \/ \E u \in Users, p \in ProjectIds, n \in 1..MaxVersion :
          TenantDeleteVersion(u, p, n) /\ UNCHANGED uiVars
    \/ \E u \in Users, p \in ProjectIds : DeleteProject(u, p) /\ UNCHANGED uiVars

SpecHistory == Init /\ [][NextHistory]_vars

\* createVersion requests for project p1 race and retry, while tenants
\* insert versions of it with their own statements
NextLedger ==
    \/ \E c \in CallIds, u \in Users :
          CreateVersionBegin(c, u, "p1") /\ UNCHANGED uiVars
    \/ \E c \in CallIds : CreateVersionInsert(c) /\ UNCHANGED uiVars
    \/ \E c \in CallIds : CreateVersionRead(c) /\ UNCHANGED uiVars
    \/ \E u \in Users, n \in 1..MaxVersion, org \in Orgs :
          TenantInsertVersion(u, "p1", n, u, org) /\ UNCHANGED uiVars

SpecLedger == Init /\ [][NextLedger]_vars

\* comments are added to the files of project p1, several of them at one
\* time, and deleted
NextStamps ==
    \/ \E u \in Users, f \in FilePaths, at \in Times :
          ApiAddFileComment(u, "p1", f, "text", at) /\ UNCHANGED uiVars
    \/ \E u \in Users, id \in 1..MaxRows : ApiDeleteComment(u, id) /\ UNCHANGED uiVars

SpecStamps == Init /\ [][NextStamps]_vars

\* users of organization A open the page of project p1 and add and delete
\* comments on its files
NextBadges ==
    \/ \E u \in {"u1", "u2"} : OpenDetail(u, "p1")
    \/ \E u \in Users : LoadAnswered(u)
    \/ \E u \in Users, f \in TreePaths :
          handleSubmitFileComment(u, f, next_id)
    \/ \E u \in Users, id \in 1..MaxRows : handleDeleteFileComment(u, id)
    \/ \E u \in Users : CommentsRefreshed(u)

SpecBadges == Init /\ [][NextBadges]_vars

\* the store and the other pages are left alone
OutsideAuth == <<storeVars, pollVars, pageVars>>

\* one browser: users of two organizations sign in and out, the selects of
\* fetchUserData and the auth-state events arrive in any order
NextAuth ==
    \/ GetSessionAnswered /\ UNCHANGED OutsideAuth
    \/ \E u \in {"u1", "u3"} : signIn(u) /\ UNCHANGED OutsideAuth
    \/ SignInAccepted /\ UNCHANGED OutsideAuth
    \/ SignInRefused /\ UNCHANGED OutsideAuth
    \/ SignInFetches /\ UNCHANGED OutsideAuth
    \/ AuthStateChange /\ UNCHANGED OutsideAuth
    \/ \E ok \in BOOLEAN : UsersAnswered(ok) /\ UNCHANGED OutsideAuth
    \/ \E ok \in BOOLEAN : OrganizationAnswered(ok) /\ UNCHANGED OutsideAuth
    \/ LoginNavigates /\ UNCHANGED OutsideAuth
    \/ LoginShowsError /\ UNCHANGED OutsideAuth
    \/ signOut /\ UNCHANGED OutsideAuth
    \/ SignOutAccepted /\ UNCHANGED OutsideAuth
    \/ SignOutRefused /\ UNCHANGED OutsideAuth

SpecAuth == Init /\ [][NextAuth]_vars

\* comments are written through the form, through the API and by tenants'
\* own INSERT statements
NextComments ==
    \/ \E b \in Bodies : TypeComment(b)
    \/ \E u \in Users, f \in FilePaths : handleSubmit(u, f)
    \/ SubmitAnswered
    \/ SubmitRejected
    \/ \E u \in Users, b \in Bodies :
          ApiAddFileComment(u, "p1", "bom.csv", b, next_id) /\ UNCHANGED uiVars
    \/ \E u \in Users, b \in Bodies \cup {NULL} :
          TenantInsertFileComment(u, "p1", "bom.csv", b, next_id, u) /\ UNCHANGED uiVars
    \/ \E u \in Users, a \in 1..MaxRows, b \in Bodies \cup {NULL} :
          TenantInsertIssueComment(u, a, "i1", b, u) /\ UNCHANGED uiVars
    \/ StartAnalysis("u1", "p1") /\ UNCHANGED uiVars

SpecComments == Init /\ [][NextComments]_vars

-----------------------------------------------------------------------------
(* Properties of the version store                                          *)

\* C1: in every reachable state no two project_versions rows of the same
\* project carry the same version_number, whatever the interleaving of
\* createVersion calls; an insert that claims a used number is rejected and
\* never stored.
C1_UniqueVersionNumbers ==
    \A r1 \in project_versions, r2 \in project_versions :
        (r1.project_id = r2.project_id /\ r1.version_number = r2.version_number)
            => r1 = r2

\* C1 case: a createVersion call lost the race for a number, its insert was
\* rejected by the unique constraint, and the winner's row is stored.
C1_RejectedDuplicate ==
    /\ last.op = "create_version_retry"
    /\ last.err = "unique_violation"
    /\ \E c \in CallIds : calls[c].pc = "read"
    /\ \E p \in projects : Cardinality(VersionsOf(p)) >= 2

ContributionCount(p, u) ==
    IF ContributorsOf(p, u) = {} THEN 0
    ELSE (CHOOSE c \in ContributorsOf(p, u) : TRUE).contribution_count

\* the project_versions rows of project p uploaded by user u
UploadsOf(p, u) ==
    {r \in project_versions : r.project_id = p /\ r.uploaded_by = u}

\* C3: for every project P and user U, contribution_count of the contributor
\* row of (P, U) equals the number of project_versions rows of P uploaded by U.
C3_CountEqualsVersions ==
    \A p \in ProjectIds, u \in Users :
        ContributionCount(p, u) = Cardinality(UploadsOf(p, u))

\* C3 case: a contributor row that a user inserted directly exists for a user
\* who uploaded nothing.
C3_RowWithoutUpload ==
    \E p \in projects, u \in Users :
        /\ ContributorsOf(p, u) # {}
        /\ UploadsOf(p, u) = {}

\* the project an issue comment belongs to, through its analysis
IssueCommentProject(c) ==
    (CHOOSE a \in analyses : a.id = c.analysis_id).project_id

\* C4: a signed-in user reads only rows of projects and analyses of the own
\* organization in project_versions, project_contributors, file_comments and
\* issue_comments, and every statement that returned or changed a row named a
\* project of the own organization: with another organization's project or
\* analysis id a read returns no row and a write is rejected.
C4_TenantIsolation ==
    /\ \A u \in Users :
          /\ \A r \in VisibleVersions(u) : ProjectOrg(r.project_id) = UserOrg(u)
          /\ \A c \in VisibleContributors(u) : ProjectOrg(c.project_id) = UserOrg(u)
          /\ \A c \in VisibleFileComments(u) : ProjectOrg(c.project_id) = UserOrg(u)
          /\ \A c \in VisibleIssueComments(u) :
                ProjectOrg(IssueCommentProject(c)) = UserOrg(u)
    /\ \A r \in project_versions : r.organization_id = ProjectOrg(r.project_id)
    /\ (last.by \in Users /\ last.ok) => ProjectOrg(last.p) = UserOrg(last.by)

\* C4 case: a user inserted a version row for a project of the other
\* organization under the own organization_id; the statement was rejected.
C4_CrossTenantWriteRejected ==
    /\ last.op = "insert_version"
    /\ last.err = "rls_project_contributors"
    /\ last.by \in Users
    /\ ProjectOrg(last.p) # UserOrg(last.by)
    /\ \E r \in project_versions : r.project_id = last.p

-----------------------------------------------------------------------------
(* Properties of the comment threads and of project deletion                *)

\* C9: only the author's delete removes a comment; a delete by any other
\* requester, a member of the same organization included, removes nothing.
C9_AuthorOnlyDelete ==
    (/\ last.op \in {"delete_comment", "delete_file_comment",
                     "delete_issue_comment"}
     /\ last.ok)
        => last.by = last.u

\* C9 case: a member of the organization who is not the author sent the
\* delete through the application's handler and was answered Forbidden.
C9_HandlerForbids ==
    /\ last.op = "delete_comment"
    /\ last.err = "Forbidden"
    /\ file_comments # {}

\* C10: no project_versions, project_contributors, file_comments, analyses or
\* issue_comments row refers to a project that is gone (directly or through
\* an analysis), and the delete of a project by a member of its organization
\* is never stopped by one of these references.
C10_CascadeComplete ==
    /\ \A r \in project_versions : r.project_id \in projects
    /\ \A c \in project_contributors : c.project_id \in projects
    /\ \A c \in file_comments : c.project_id \in projects
    /\ \A a \in analyses : a.project_id \in projects
    /\ \A c \in issue_comments : c.analysis_id \in AnalysisIdsOf(analyses)
    /\ last.op = "delete_project" => last.err # "fk_violation"

\* C10 case: a project with rows in all five referencing tables was deleted.
C10_DeletedWithReferences ==
    /\ last.op = "delete_project"
    /\ last.ok
    /\ last.n = 5
    /\ last.p \notin projects

-----------------------------------------------------------------------------
(* Properties of the analysis status and of the results page's poll loop    *)

StatusRank(status) ==
    CASE status = "none" -> 0
      [] status = "pending" -> 1
      [] status = "running" -> 2
      [] OTHER -> 3

\* a step changes the status of an analysis only along pending -> running,
\* running -> completed, running -> failed, and the status set as results
\* for an analysis id only to a later one or to the same one
StatusStep ==
    /\ \A a \in analyses, b \in analyses' :
          (a.id = b.id /\ a.status # b.status)
              => <<a.status, b.status>> \in {<<"pending", "running">>,
                                             <<"running", "completed">>,
                                             <<"running", "failed">>}
    /\ \A j \in JobIds :
          shown'[j] # shown[j] => StatusRank(shown'[j]) > StatusRank(shown[j])

\* C5: the status of an analysis moves only pending -> running ->
\* completed | failed, none skipping running and none leaving completed or
\* failed, and the successive results shown for one analysis id never go
\* back to an earlier status.
C5_MonotonicStatus == [][StatusStep]_vars

\* C5 case: the page showed an analysis as running and then as ended, while
\* an answer taken earlier by a torn-down run of the effect was dropped.
C5_SeenThrough ==
    \E i \in EffectIds, k \in EffectIds :
        /\ i # k
        /\ effects[i].job = effects[k].job
        /\ ~effects[i].active
        /\ effects[i].got = "pending"
        /\ shown[effects[k].job] \in {"completed", "failed"}

\* C6: a run of the effect has a request out or a timeout pending only while
\* it has received no response yet or the last one said pending or running;
\* after a response with completed or failed there is neither.
C6_StopsOnTerminal ==
    \A i \in EffectIds :
        (effects[i].req # "none" \/ effects[i].timer)
            => effects[i].got \in {"none", "pending", "running"}

\* C6 case: a mounted page polled an analysis more than once and received
\* its terminal status.
C6_TerminalReceived ==
    \E i \in EffectIds :
        /\ effects[i].active
        /\ effects[i].got \in {"completed", "failed"}
        /\ view.results = <<effects[i].job, effects[i].got>>
        /\ ~view.loading

TornDown(e) == e.job # 0 /\ ~e.active

\* what a torn-down run of the effect may do in a step
TornDownStep ==
    \A i \in EffectIds :
        /\ TornDown(effects'[i]) => ~effects'[i].timer
        /\ TornDown(effects[i]) =>
              /\ effects'[i].req = "sent" => effects[i].req = "sent"
              /\ effects'[i] # effects[i] => (view' = view /\ shown' = shown)

\* C7: after the cleanup of a run of the effect (unmount or change of jobId)
\* a response that arrives for it changes neither results, loading nor
\* error, the run sends no further request, and its timeout is cancelled.
C7_NoUseAfterTeardown == [][TornDownStep]_vars

\* C7 case: the response of a torn-down run arrived and nothing of its
\* analysis was ever shown.
C7_LateResponseDropped ==
    \E i \in EffectIds :
        /\ TornDown(effects[i])
        /\ effects[i].got \in Statuses
        /\ effects[i].req = "none"
        /\ shown[effects[i].job] = "none"

\* the requests for analysis j that are out or whose answer is on its way
InFlight(j) ==
    {i \in EffectIds : effects[i].job = j /\ effects[i].req # "none"}

\* C8: at any moment at most one request is in flight for a given analysis,
\* whatever the mounts, teardowns and re-mounts of the page.
C8_OneRequestPerJob ==
    \A j \in JobIds : Cardinality(InFlight(j)) <= 1

\* C8 case: the page was left and opened again on the same analysis while
\* the first request was still out.
C8_Overlap ==
    \E j \in JobIds : Cardinality(InFlight(j)) = 2

-----------------------------------------------------------------------------
(* Further properties of the version store                                  *)

\* C11: after any sequence of createVersion calls on a project, concurrent
\* ones included, the project's cached version_count equals the number of
\* its project_versions rows.
C11_VersionCountCached ==
    \A p \in projects : version_count[p] = Cardinality(VersionsOf(p))

\* C11 case: racing calls stored versions 2 and 3 of a project, one call
\* having lost the race, and the cache says 3.
C11_CountedAfterRace ==
    \E p \in projects :
        /\ version_count[p] = 3
        /\ Cardinality(VersionsOf(p)) = 3
        /\ \E c \in CallIds : calls[c].pc = "conflict"

-----------------------------------------------------------------------------
(* Properties of batch analysis                                             *)

\* the projects of an answered batch the caller could start
Startable(u, ids) == {k \in DOMAIN ids : ids[k] \in OrgProjects(u)}

\* C12: a batch creates one analysis for every project id that can be
\* started, a failure of one id not undoing the others, and its answer
\* holds one item, an analysis or an error, for every requested id.
C12_PerItemResult ==
    (batch.requested # <<>> /\ ~batch.error) =>
        /\ \A k \in Startable(batch.by, batch.requested) :
              \E i \in DOMAIN batch.jobs :
                  /\ batch.jobs[i].project_id = batch.requested[k]
                  /\ \E a \in analyses :
                        /\ a.id = batch.jobs[i].id
                        /\ a.project_id = batch.requested[k]
        /\ Len(batch.jobs) = Len(batch.requested)

\* C12 case: a batch of two projects, one of them of another organization:
\* the analysis of the caller's own project was created, and the answer has
\* one job and nothing for the other project.
C12_PartialBatch ==
    /\ Len(batch.requested) = 2
    /\ Len(batch.jobs) = 1
    /\ ~batch.error
    /\ \E a \in analyses : a.id = batch.jobs[1].id

-----------------------------------------------------------------------------
(* Further properties of the results page                                   *)

\* C13: when the analysis the page polls has status failed, the page shows
\* the failure reason recorded on that analysis.
C13_FailureReasonShown ==
    (view.mounted /\ view.results # NoResults /\ view.results[2] = "failed")
        => FailureReason(view.results[1]) \in Rendered(view)

\* C13 case: the page polled an analysis until the engine ended it as
\* failed, holds that answer as results, and renders the dashboard.
C13_FailedShownAsDashboard ==
    /\ view.mounted
    /\ view.results # NoResults
    /\ view.results[2] = "failed"
    /\ Rendered(view) = {"dashboard"}


\* C14 as stated: across the successive statuses shown for one analysis id
\* the same status is never shown twice.
C14_NeverSameTwice ==
    \A j \in JobIds : ~reports[j].twice

\* C14 amended: a status that was followed by a different one is never shown
\* again for that analysis id; consecutive polls may show the same status
\* while the analysis stays in it.
C14_NoStatusAgain ==
    \A j \in JobIds :
        \A i \in DOMAIN reports[j].seq, k \in DOMAIN reports[j].seq :
            reports[j].seq[i] = reports[j].seq[k] => i = k

\* C14 case: two polls in a row showed an analysis as running, then it was
\* shown as ended.
C14_RunningTwiceThenEnded ==
    \E j \in JobIds :
        /\ reports[j].twice
        /\ Len(reports[j].seq) >= 2
        /\ reports[j].seq[Len(reports[j].seq) - 1] = "running"
        /\ reports[j].seq[Len(reports[j].seq)] \in {"completed", "failed"}

(***************************************************************************)
(* Properties of starting an analysis                                      *)
(***************************************************************************)

\* the analyses of project p that are pending or running
ActiveAnalyses(p) ==
    {a \in analyses : a.project_id = p /\ a.status \in {"pending", "running"}}

\* C15: whatever the sequence of startAnalysis calls, a project has at most
\* one analysis that is pending or running
C15_OneActiveJob ==
    \A p \in ProjectIds : Cardinality(ActiveAnalyses(p)) <= 1

\* C15 case: two users of one organization each have started an analysis of
\* the same project from their own page, and both analyses are pending
C15_TwoPending ==
    \E a, b \in analyses :
        /\ a.id # b.id
        /\ a.project_id = b.project_id
        /\ a.status = "pending" /\ b.status = "pending"
        /\ detail["u1"].navigated \in {a.id, b.id}
        /\ detail["u2"].navigated \in {a.id, b.id}
        /\ detail["u1"].navigated # detail["u2"].navigated

\* a step of startAnalysis: the request was answered with a new analysis
Started == last'.op = "start_analysis" /\ next_id' = next_id + 1

\* the rows a step adds to table analyses
NewAnalyses == analyses' \ analyses

\* C16: every startAnalysis adds exactly one row to table analyses, with an
\* id no row had, in status pending and referencing one version row of its
\* project, and leaves every row that existed as it was
C16_FreshPendingRow ==
    [][Started =>
          /\ analyses \subseteq analyses'
          /\ Cardinality(NewAnalyses) = 1
          /\ \A a \in NewAnalyses :
                /\ \A b \in analyses : b.id # a.id
                /\ a.status = "pending"
                /\ Cardinality({r \in VersionsOf(a.project_id) :
                                    VersionId(r) = a.version_id}) = 1]_vars

\* C16 case: an analysis of a project that has its migrated version 1 and
\* no current version: the analysis references no version
C16_AnalysisWithoutVersion ==
    \E a \in analyses :
        /\ a.version_id = NoVersion
        /\ VersionsOf(a.project_id) # {}
        /\ detail[last.by].navigated = a.id

(***************************************************************************)
(* Properties of the version history                                       *)
(***************************************************************************)

\* C17: a version row is never changed and never removed on its own: from
\* one state to the next every version row is still there as it was, unless
\* its project was deleted in that step
C17_VersionsImmutable ==
    [][\A r \in project_versions :
          \/ r \in project_versions'
          \/ (r.project_id \in projects /\ r.project_id \notin projects')]_vars

\* C17 case: a tenant has sent a DELETE for one of the versions of a project
\* of their own organization, all of which exist; the statement reached no
\* row and the versions are all still there
C17_DeleteReachedNoRow ==
    /\ last.op = "delete_version"
    /\ last.err = "no_rows"
    /\ last.p \in OrgProjects(last.by)
    /\ Cardinality(VersionsOf(last.p) \cap VisibleVersions(last.by)) = MaxVersion

(***************************************************************************)
(* Properties of comment bodies                                            *)
(***************************************************************************)

\* C18: no comment on a file or on an issue has an empty body, and the form
\* never sends a body that is empty after trimming
C18_NoEmptyBody ==
    /\ \A c \in file_comments \cup issue_comments : c.comment # ""
    /\ form.submitted = NULL \/ Trim(form.submitted) # ""

\* C18 case: a tenant's own INSERT has stored a comment with the empty
\* string as its body
C18_EmptyBodyStored ==
    /\ last.op \in {"insert_file_comment", "insert_issue_comment"}
    /\ last.ok
    /\ \E c \in file_comments \cup issue_comments :
          c.id = last.n /\ c.comment = ""

(***************************************************************************)
(* Properties of the version list                                          *)
(***************************************************************************)

\* a list of version numbers that strictly decreases
StrictlyDecreasing(list) ==
    \A i, j \in DOMAIN list : i < j => list[i] > list[j]

\* C19: the listing of a project's versions is strictly decreasing in
\* version_number, and so is the list a loaded project page holds, whose
\* first entry is the highest of the list; a version uploaded from the page
\* is in that list, at the front unless a later upload is before it
C19_NewestFirst ==
    /\ \A u \in Users, p \in ProjectIds : StrictlyDecreasing(ListVersions(u, p))
    /\ \A u \in Users :
          Rendering(detail[u]) =>
              /\ StrictlyDecreasing(detail[u].versions)
              /\ detail[u].uploaded # 0 =>
                    /\ detail[u].versions # <<>>
                    /\ ~detail[u].isUploadingVersion =>
                          Head(detail[u].versions) = detail[u].uploaded

\* C19 case: a page that loaded one version has had two uploads answered,
\* and shows the three versions
C19_TwoUploadsShown ==
    \E u \in Users :
        /\ Rendering(detail[u])
        /\ detail[u].uploaded = 3
        /\ detail[u].versions = <<3, 2, 1>>

(***************************************************************************)
(* Termination of the poller                                               *)
(***************************************************************************)

\* no run of the effect has a request in flight or a timeout pending
Stopped ==
    \A i \in EffectIds : effects[i].req = "none" /\ ~effects[i].timer

\* C20: a page that stays mounted on an analysis, with every request
\* answered and the analysis ended by the engine, comes to show the
\* terminal status of the analysis with no request in flight and no timeout
\* pending; and a run whose latest answer was pending or running always
\* has a request in flight or a timeout pending
C20_PollerTerminates ==
    /\ [](\A i \in EffectIds :
             (effects[i].active /\ effects[i].got \in {"pending", "running"})
                 => (effects[i].req # "none" \/ effects[i].timer))
    /\ \A j \in JobIds :
          (view.mounted /\ view.jobId = j)
              ~> /\ shown[j] \in {"completed", "failed"}
                 /\ shown[j] = GetStatus(j)
                 /\ Stopped

\* C20 case: the page has shown an analysis in one status on two polls in a
\* row, then its terminal status, and has stopped
C20_StoppedAfterRepoll ==
    \E j \in JobIds :
        /\ view.mounted /\ view.jobId = j
        /\ reports[j].twice
        /\ shown[j] \in {"completed", "failed"}
        /\ Stopped

(***************************************************************************)
(* Properties of the contributor ledger                                    *)
(***************************************************************************)

\* the contributor rows of the uploader of the first version of project p
FirstUploaderRows(p) ==
    {c \in project_contributors :
        /\ c.project_id = p
        /\ \E r \in VersionsOf(p) :
              r.version_number = 1 /\ r.uploaded_by = c.user_id}

\* C21: the uploader of a project's first version, migrated or uploaded, has
\* a contributor row for the project, and its role is owner
C21_FirstUploaderIsOwner ==
    \A p \in projects :
        (\E r \in VersionsOf(p) : r.version_number = 1) =>
            /\ FirstUploaderRows(p) # {}
            /\ \A c \in FirstUploaderRows(p) : c.role = "owner"

\* C21 case: after the migration and a later upload to the project, the row
\* of the creator, who uploaded version 1, has role contributor
C21_CreatorIsContributor ==
    \E p \in projects :
        /\ last.op = "create_version" /\ last.ok /\ last.p = p
        /\ \E r \in VersionsOf(p) :
              r.version_number = 1 /\ r.uploaded_by = ProjectCreator(p)
        /\ \E c \in FirstUploaderRows(p) :
              c.user_id = ProjectCreator(p) /\ c.role = "contributor"


\* C22: when a user who has a contributor row for a project of their
\* organization inserts another version of it, with a version number that is
\* free, the insert succeeds, the pair still has one row, and its
\* contribution_count is one higher
C22_RepeatUploadCounted ==
    [][\A u \in Users, p \in ProjectIds, n \in 1..MaxVersion :
          (/\ p \in OrgProjects(u)
           /\ ContributorsOf(p, u) # {}
           /\ UniqueVersion(VersionRow(p, n, u, ProjectOrg(p)))
           /\ TenantInsertVersion(u, p, n, u, ProjectOrg(p)))
          => /\ last'.ok
             /\ Cardinality(ContributorsOf(p, u)') = 1
             /\ ContributionCount(p, u)' = ContributionCount(p, u) + 1]_vars

\* C22 case: the creator of a project, who has a contributor row, has sent
\* an INSERT of a second version of it, and the insert was rejected for
\* project_contributors
C22_RepeatUploadRejected ==
    /\ last.op = "insert_version"
    /\ last.err = "rls_project_contributors"
    /\ last.p \in OrgProjects(last.by)
    /\ last.by = ProjectCreator(last.p)
    /\ ContributorsOf(last.p, last.by) # {}
    /\ Cardinality(VersionsOf(last.p)) = 1


\* every version row has a contributor row for its project and its uploader
EveryVersionHasContributor ==
    \A r \in project_versions : ContributorsOf(r.project_id, r.uploaded_by) # {}

\* a step stores at most one version of a project and a user, and the count
\* of the pair goes up by one in that step and in no other
CountedWithVersion ==
    \A p \in ProjectIds, u \in Users :
        LET added == UploadsOf(p, u)' \ UploadsOf(p, u)
        IN  /\ Cardinality(added) <= 1
            /\ ContributionCount(p, u)' =
                  ContributionCount(p, u) + Cardinality(added)

\* C23: the contributor update happens with the version write or not at
\* all: every version row has a contributor row for (project_id,
\* uploaded_by), and contribution_count changes only in a step that stores a
\* version of the pair, by one, whatever inserts were rejected or tried
\* again before
C23_AtomicWithVersion ==
    /\ []EveryVersionHasContributor
    /\ [][CountedWithVersion]_vars

\* C23 case: an insert of a version hit the unique constraint and is about
\* to be tried again; the uploader's count is the number of their versions
C23_RolledBackBeforeRetry ==
    /\ last.op = "create_version_retry"
    /\ \E c \in CallIds :
          /\ calls[c].pc = "read"
          /\ calls[c].tries = 1
          /\ ContributionCount(calls[c].project, calls[c].user)
                = Cardinality(UploadsOf(calls[c].project, calls[c].user))
          /\ UploadsOf(calls[c].project, calls[c].user) # {}


(***************************************************************************)
(* Properties of comments on one file                                      *)
(***************************************************************************)

\* C24: every addComment with a body that is not empty, on a file of a
\* project the author can see, succeeds and adds one row with an id no row
\* had, leaving every other comment as it was, whoever the author, whatever
\* the path and whatever the time of creation
C24_EveryCommentStored ==
    [][\A u \in Users, f \in FilePaths, at \in Times :
          ("p1" \in OrgProjects(u) /\ AddFileComment(u, "p1", f, "text", at))
          => /\ last'.ok
             /\ file_comments \subseteq file_comments'
             /\ Cardinality(file_comments' \ file_comments) = 1
             /\ \A c \in file_comments' \ file_comments :
                   \A d \in file_comments : d.id # c.id]_vars

\* C24 case: an author has a comment on a file, and their next comment on
\* the same file, handled at the same time, was rejected
C24_SecondCommentRejected ==
    /\ last.op = "add_comment"
    /\ last.err = "unique_violation"
    /\ \E c \in file_comments : c.project_id = last.p /\ c.created_by = last.by


(***************************************************************************)
(* Properties of the comment counts per file                               *)
(***************************************************************************)

\* how many comments of a list are on a path
OnPath(list, path) ==
    Cardinality({i \in DOMAIN list : list[i].file_path = path})

\* C25: on a page whose list of comments has been refreshed, the count shown
\* for every file path is the number of comments of the list on that path,
\* 0 for a path with none
C25_CountPerPath ==
    \A u \in Users :
        (Rendering(detail[u]) /\ ~detail[u].refreshing) =>
            \A path \in TreePaths :
                commentCount(commentsByFile(detail[u].fileComments), path)
                    = Number(OnPath(detail[u].fileComments, path))

\* C25 case: the refreshed list of a page holds a comment on the file named
\* constructor, and the count computed for that file is text
C25_CountIsText ==
    \E u \in Users :
        /\ Rendering(detail[u]) /\ ~detail[u].refreshing
        /\ OnPath(detail[u].fileComments, "constructor") = 1
        /\ commentCount(commentsByFile(detail[u].fileComments), "constructor")
              = Text


(***************************************************************************)
(* Properties of the dashboard after a failed poll and while loading       *)
(***************************************************************************)

\* C26: a run of the polling effect whose request failed has no request in
\* flight and no timeout pending from then on, whatever the status of the
\* analysis; if the failure arrived while the run was active, the page has
\* its error set and loading cleared
C26_NoPollAfterError ==
    \A i \in EffectIds :
        effects[i].got = "error" =>
            /\ effects[i].req = "none"
            /\ ~effects[i].timer
            /\ effects[i].active => (view.error /\ ~view.loading)

\* C26 case: the page is mounted on an analysis that is still pending or
\* running, a poll of it has failed, and the page shows the error with
\* nothing outstanding
C26_StoppedWhileRunning ==
    \E i \in EffectIds :
        /\ view.mounted /\ view.jobId = effects[i].job
        /\ effects[i].active
        /\ effects[i].got = "error"
        /\ GetStatus(effects[i].job) \in {"pending", "running"}
        /\ view.error
        /\ Stopped


\* C27: while the answer the page holds as results has status pending or
\* running, the page is in its loading state and renders the spinner with
\* the progress text, never the result view
C27_LoadingUntilTerminal ==
    (/\ view.mounted
     /\ view.results # NoResults
     /\ view.results[2] \in {"pending", "running"})
        => /\ view.loading
           /\ "dashboard" \notin Rendered(view)

\* C27 case: the answer applied last says running, loading has been cleared
\* with it, and the page renders the result view of the unfinished analysis
C27_ResultViewWhileRunning ==
    /\ view.mounted
    /\ view.results # NoResults
    /\ view.results[2] = "running"
    /\ ~view.loading /\ ~view.error
    /\ Rendered(view) = {"dashboard"}


(***************************************************************************)
(* Properties of the auth context                                          *)
(***************************************************************************)

\* C28: whenever signIn resolves without throwing, the profile and the
\* organization of the user are loaded: user and organization are non-null
\* in the state in which the call resolves, however its fetchUserData and
\* the SIGNED_IN callback's fetchUserData interleave
C28_ResolvedMeansLoaded ==
    [][(signInCall.pc # "resolved" /\ signInCall'.pc = "resolved")
          => (auth'.user # NULL /\ auth'.organization # NULL)]_vars

\* C28 case: signIn has resolved because its forced fetchUserData found
\* fetchingRef set by the callback's call and returned at once; the callback's
\* call is still waiting for its rows and user and organization are null
C28_ResolvedWhileFetching ==
    /\ signInCall.pc = "resolved"
    /\ fetching.pc # "none" /\ fetching.caller = "callback"
    /\ fetching.userId = signInCall.userId
    /\ auth.user = NULL /\ auth.organization = NULL

\* C29: while the client holds no session, that is from a completed signOut
\* or a handled SIGNED_OUT to the next successful sign-in, user and
\* organization are null
C29_SignedOutStaysNull ==
    auth.clientSession = NULL
        => (auth.user = NULL /\ auth.organization = NULL)

\* C29 case: signOut has completed and SIGNED_OUT has been handled, no call
\* is in progress, and the rows of a fetchUserData call started before the
\* sign-out have since been set as user and organization
C29_StaleProfileAfterSignOut ==
    /\ auth.clientSession = NULL /\ auth.session = NULL
    /\ events = <<>>
    /\ signInCall.pc = "idle" /\ signOutCall.pc = "idle"
    /\ fetching.pc = "none"
    /\ auth.user # NULL /\ auth.organization # NULL


(***************************************************************************)
(* Properties of the organization label of a version                       *)
(***************************************************************************)

\* C30: every row of project_versions carries the organization of its
\* project: the INSERT policy ties the label to the caller's organization
\* and the contributor trigger, run with the caller's rights, ties the
\* project to it, so no version labelled with one organization hangs on a
\* project of another
C30_VersionOrgIsProjectOrg ==
    \A r \in project_versions :
        /\ r.project_id \in ProjectIds
        /\ r.organization_id = ProjectOrg(r.project_id)

\* C30 case: versions inserted by tenants exist, and the latest statement was
\* a user's insert of a version under the own label for a project of the
\* other organization, refused by the contributor policy in the trigger
C30_OwnLabelOnForeignProjectRefused ==
    /\ \E r \in project_versions \ MigratedVersions :
          r.organization_id = UserOrg(r.uploaded_by)
    /\ last.op = "insert_version" /\ ~last.ok
    /\ last.err = "rls_project_contributors"
    /\ last.by \in Users
    /\ last.p \in projects
    /\ ProjectOrg(last.p) # UserOrg(last.by)
    /\ \A r \in VersionsOf(last.p) : r.organization_id # UserOrg(last.by)

=============================================================================
